---- MODULE Spec2Model ----
(***************************************************************************)
(* A model of the Aviary ad-auction server (google/trusted-worklet-server).*)
(*                                                                         *)
(* The model covers AdAuctionsImpl (server/ad_auctions.cc), the            *)
(* FunctionRepository it reads (server/function_repository.cc) and the     *)
(* periodic refresh that replaces the repository.  One request thread runs *)
(* RunAdAuction; the refresher thread runs RefreshFunctionRepository.  The *)
(* request takes function_repository_mutex_ as a reader once per function  *)
(* call (RunGenerateBidFunction, RunScoreAdFunction), so each of those     *)
(* calls is one atomic step and the refresher's swap, which takes the      *)
(* mutex as the writer, may fall between any two of them.                  *)
(***************************************************************************)
EXTENDS Integers, Sequences, FiniteSets, TLC

(***************************************************************************)
(* Bounds of the model.                                                    *)
(***************************************************************************)
\* The largest number of interest groups in one RunAdAuctionRequest.
MaxGroups == 2

\* The largest number of inputs in one BatchInvoke call.
MaxBatch == 2

(***************************************************************************)
(* The input domains.                                                      *)
(***************************************************************************)
\* Interest group owners that may appear in a request.
Owners == {"o1", "o2"}

\* Configuration::bidding_function_specs and ad_scoring_function_specs: the
\* URIs the server is configured with.  The configuration is copied into the
\* refresher at construction, so these sets never change.
BiddingUris == {"b1"}
ScoringUris == {"s1"}

\* The URLs a request may name: the configured ones and one that is not.
RequestBiddingUrls == BiddingUris \cup {"b0"}
RequestScoringUrls == ScoringUris \cup {"s0"}

\* What the function source can return for a bidding function URI:
\*   "fetch_error"  GetFunctionCode fails
\*   "bad"          a script that does not compile
\*   "throw"        a script that compiles and throws when invoked
\*   "perBuyer"     a script that bids the per-buyer signal of the owner and
\*                  renders the interest group's first ad
BidderPrograms == {"throw", "perBuyer"}
BidderSources == BidderPrograms \cup {"bad", "fetch_error"}

\* What the function source can return for an ad scoring function URI:
\*   "same"    desirability = bid
\*   "minus1"  desirability = bid - 1
\*   "negate"  desirability = -bid
ScorerPrograms == {"throw", "same", "minus1", "negate"}
ScorerSources == ScorerPrograms \cup {"bad", "fetch_error"}

\* AuctionConfiguration::per_buyer_signals of every request of the model.
PerBuyerSignals == [o \in Owners |-> IF o = "o1" THEN 1 ELSE 2]

\* InterestGroupAuctionState::name and ads[0].render_url of the interest
\* group at a position of the request.  A google.protobuf.Struct is the set
\* of its fields, each a pair of key and value: ads[0].ad_metadata and
\* browser_signals hold one field whose value is the position.
GroupNames == <<"g1", "g2", "g3", "g4", "g5">>
GroupRenderUrls == <<"ad1", "ad2", "ad3", "ad4", "ad5">>

InterestGroupAt(k, owner, url) ==
    [owner |-> owner, name |-> GroupNames[k], bidding_logic_url |-> url,
     render_url |-> GroupRenderUrls[k],
     ad_metadata |-> {<<"funny", k>>},
     browser_signals |-> {<<"join_count", k>>}]

InterestGroupLists ==
    UNION { { [k \in 1..n |-> InterestGroupAt(k, c[k][1], c[k][2])] :
                c \in [1..n -> Owners \X RequestBiddingUrls] } :
            n \in 0..MaxGroups }

\* RunAdAuctionRequest::trusted_scoring_signals, a map from render URL to
\* Struct: empty, or with an entry for the ad of the first interest group.
TrustedScoringSignals ==
    {[u \in {} |-> {}], [u \in {"ad1"} |-> {<<"categories", "jokes">>}]}

Requests ==
    { [interest_groups |-> gs,
       auction_configuration |->
           [interest_group_buyers |-> buyers,
            decision_logic_url |-> url,
            per_buyer_signals |-> PerBuyerSignals],
       trusted_scoring_signals |-> signals] :
        gs \in InterestGroupLists,
        buyers \in SUBSET Owners,
        url \in RequestScoringUrls,
        signals \in TrustedScoringSignals }

(***************************************************************************)
(* Protocol buffer default instances and absl::StatusOr values.            *)
(***************************************************************************)
DefaultBiddingFunctionOutput == [bid |-> 0, render_url |-> "", ad |-> {}]
DefaultAdScoringFunctionOutput == [desirability_score |-> 0]
DefaultScoredInterestGroupBid ==
    [interest_group_owner |-> "", interest_group_name |-> "",
     bid_price |-> 0, render_url |-> "", desirability_score |-> 0]
DefaultResponse ==
    [has_winning_bid |-> FALSE,
     winning_bid |-> DefaultScoredInterestGroupBid,
     losing_bids |-> <<>>]
DefaultRequest ==
    [interest_groups |-> <<>>,
     auction_configuration |->
         [interest_group_buyers |-> {},
          decision_logic_url |-> "s0",
          per_buyer_signals |-> PerBuyerSignals],
     trusted_scoring_signals |-> [u \in {} |-> {}]]

OkResult(v) == [ok |-> TRUE, code |-> "OK", value |-> v]
ErrorResult(c, v) == [ok |-> FALSE, code |-> c, value |-> v]

\* The entry of the invocation logs for a function that was not called.
NotInvoked(v) == [ok |-> FALSE, code |-> "NOT_INVOKED", value |-> v]

VARIABLES
    function_repository_,  \* the published FunctionRepository
    pc,                    \* where the request thread is in RunAdAuction
    request,               \* the RunAdAuctionRequest being served
    next_group,            \* position of the for loop in interest_groups
    bidding_result,        \* the current group's bid, between bid and score
    scored_bids,           \* the local vector scored_bids
    response,              \* the RunAdAuctionResponse
    status,                \* the grpc::Status returned, "NONE" while running
    bid_log,               \* per interest group: what the bidder call returned
    score_log,             \* per interest group: what the scorer call returned
    entry_snapshot_published,  \* the repository at entry is still published
    lookups_on_entry_snapshot, \* every lookup so far read the entry repository
    configuration,         \* the Configuration copied into the refresher
    function_source,       \* the FunctionSource: what each URI serves now
    refresher,             \* the refresh thread: its position and its locals
    published_codes,       \* the source codes read by the published rebuild
    compute_bid,           \* the last ComputeBid call and what it returned
    use_sandbox2,          \* FLAGS_use_sandbox2
    bidding_function,      \* one compiled function: source and snapshot
    isolate,               \* its v8 isolate: who holds the Locker, the context
    comms,                 \* the sandbox2 channel between host and sandboxee
    callers,               \* the threads calling BatchInvoke on the function
    creation,              \* the AdAuctionsImpl::Create call and its status
    periodic_function,     \* one PeriodicFunction, its thread and its owner
    sandboxee,             \* the adapter inside one sandboxee process
    promise,               \* one WaitForPromise call and the promise it waits on
    resolution,            \* one FunctionSource::GetFunctionCode call
    lifetime               \* the repository objects, the mutex, who uses them

\* The state of the refresh thread and of ComputeBid.
repository_vars == <<configuration, function_source, refresher,
                     published_codes, compute_bid>>

\* The state of one compiled function and of the threads that invoke it.
engine_vars == <<use_sandbox2, bidding_function, isolate, comms, callers>>

\* The state of the parts followed on their own: the creation of the
\* service, a PeriodicFunction, the adapter of a sandboxee, a wait for a
\* promise, the resolution of a function specification.
standalone_vars == <<creation, periodic_function, sandboxee, promise,
                     resolution, lifetime>>

\* What RunAdAuction and the one-step refresh leave alone.
outside_auction_vars == <<repository_vars, engine_vars, standalone_vars>>

vars == <<function_repository_, pc, request, next_group, bidding_result,
          scored_bids, response, status, bid_log, score_log,
          entry_snapshot_published, lookups_on_entry_snapshot,
          repository_vars, engine_vars, standalone_vars>>

request_vars == <<pc, request, next_group, bidding_result, scored_bids,
                  response, status, bid_log, score_log,
                  lookups_on_entry_snapshot>>

(***************************************************************************)
(* CreateFunctionRepository and the repository's lookups.                  *)
(***************************************************************************)
\* BiddingFunction::Create: a script that does not compile is an error.
CompileFunction(source) ==
    IF source = "bad" THEN ErrorResult("INVALID_ARGUMENT", "nullptr")
    ELSE OkResult(source)

\* GetFunctionSourceCodes: the first failing fetch fails the whole call with
\* the status of the function source (not-found for the test source).
GetFunctionSourceCodes(sources) ==
    IF \E uri \in DOMAIN sources : sources[uri] = "fetch_error"
    THEN ErrorResult("NOT_FOUND", sources)
    ELSE OkResult(sources)

\* The map CreateFunctionRepository builds from the source codes: a function
\* that fails to compile is kept as a nullptr placeholder.
CompileAll(codes) ==
    [uri \in DOMAIN codes |->
        IF CompileFunction(codes[uri]).ok
        THEN CompileFunction(codes[uri]).value
        ELSE "nullptr"]

CreateFunctionRepository(bidding_sources, scoring_sources) ==
    LET bidding_codes == GetFunctionSourceCodes(bidding_sources)
        scoring_codes == GetFunctionSourceCodes(scoring_sources)
        none == [bidding_functions_ |-> <<>>, ad_scoring_functions_ |-> <<>>]
    IN  IF ~bidding_codes.ok THEN ErrorResult(bidding_codes.code, none)
        ELSE IF ~scoring_codes.ok THEN ErrorResult(scoring_codes.code, none)
        ELSE OkResult([bidding_functions_ |-> CompileAll(bidding_codes.value),
                       ad_scoring_functions_ |->
                           CompileAll(scoring_codes.value)])

GetBiddingFunction(repository, uri) ==
    IF uri \notin DOMAIN repository.bidding_functions_
    THEN ErrorResult("NOT_FOUND", "nullptr")
    ELSE IF repository.bidding_functions_[uri] = "nullptr"
    THEN ErrorResult("UNAVAILABLE", "nullptr")
    ELSE OkResult(repository.bidding_functions_[uri])

\* Mutant: a missing ad scoring function reported like an unavailable one.
GetAdScoringFunction_MissingIsUnavailable(repository, uri) ==
    IF uri \notin DOMAIN repository.ad_scoring_functions_
    THEN ErrorResult("UNAVAILABLE", "nullptr")
    ELSE IF repository.ad_scoring_functions_[uri] = "nullptr"
    THEN ErrorResult("UNAVAILABLE", "nullptr")
    ELSE OkResult(repository.ad_scoring_functions_[uri])

GetAdScoringFunction(repository, uri) ==
    IF uri \notin DOMAIN repository.ad_scoring_functions_
    THEN ErrorResult("NOT_FOUND", "nullptr")
    ELSE IF repository.ad_scoring_functions_[uri] = "nullptr"
    THEN ErrorResult("UNAVAILABLE", "nullptr")
    ELSE OkResult(repository.ad_scoring_functions_[uri])

(***************************************************************************)
(* Invoking a compiled function on one input.                              *)
(***************************************************************************)
\* BiddingFunction<BiddingFunctionInput, BiddingFunctionOutput>::BatchInvoke
\* on the single input, reduced to its last (only) output.
InvokeBiddingFunction(function, input) ==
    IF function = "perBuyer"
    THEN OkResult([bid |-> input.per_buyer_signals,
                   render_url |-> input.interest_group.render_url,
                   ad |-> input.interest_group.ad_metadata])
    ELSE ErrorResult("INTERNAL", DefaultBiddingFunctionOutput)

\* BiddingFunction<AdScoringFunctionInput, AdScoringFunctionOutput>::
\* BatchInvoke on the single input, reduced to its last (only) output.
InvokeAdScoringFunction(function, input) ==
    CASE function = "same" ->
            OkResult([desirability_score |-> input.bid])
      [] function = "minus1" ->
            OkResult([desirability_score |-> input.bid - 1])
      [] function = "negate" ->
            OkResult([desirability_score |-> 0 - input.bid])
      [] OTHER -> ErrorResult("INTERNAL", DefaultAdScoringFunctionOutput)

(***************************************************************************)
(* The helpers of RunAdAuction.                                            *)
(***************************************************************************)
CreateBiddingFunctionInput(interest_group, auction_configuration) ==
    [interest_group |-> interest_group,
     per_buyer_signals |->
         IF interest_group.owner \in
                DOMAIN auction_configuration.per_buyer_signals
         THEN auction_configuration.per_buyer_signals[interest_group.owner]
         ELSE 0]

\* A message field is its presence (has_...) and its value, the empty Struct
\* when it was never set.  browser_signals is not set.
CreateAdScoringInputs(output, auction_configuration, trusted_scoring_signals) ==
    [auction_config |-> auction_configuration,
     ad_metadata |-> output.ad,
     bid |-> output.bid,
     trusted_scoring_signals |->
         IF output.render_url \in DOMAIN trusted_scoring_signals
         THEN [has |-> TRUE,
               value |-> trusted_scoring_signals[output.render_url]]
         ELSE [has |-> FALSE, value |-> {}],
     browser_signals |-> [has |-> FALSE, value |-> {}]]

\* Mutant: the desirability score stored as the bid price.
GetScoredInterestGroupBid_ScoreAsPrice(interest_group, bid, scored_ad) ==
    [interest_group_owner |-> interest_group.owner,
     interest_group_name |-> interest_group.name,
     bid_price |-> scored_ad.desirability_score,
     render_url |-> bid.render_url,
     desirability_score |-> scored_ad.desirability_score]

GetScoredInterestGroupBid(interest_group, bid, scored_ad) ==
    [interest_group_owner |-> interest_group.owner,
     interest_group_name |-> interest_group.name,
     bid_price |-> bid.bid,
     render_url |-> bid.render_url,
     desirability_score |-> scored_ad.desirability_score]

RunGenerateBidFunction(repository, bidding_logic_url, input) ==
    LET function == GetBiddingFunction(repository, bidding_logic_url)
    IN  IF ~function.ok
        THEN ErrorResult(function.code, DefaultBiddingFunctionOutput)
        ELSE InvokeBiddingFunction(function.value, input)

RunScoreAdFunction(repository, ad_scoring_logic_url, input) ==
    LET function == GetAdScoringFunction(repository, ad_scoring_logic_url)
    IN  IF ~function.ok
        THEN ErrorResult(function.code, DefaultAdScoringFunctionOutput)
        ELSE InvokeAdScoringFunction(function.value, input)

\* Mutant: a failed bid returned to the caller like a failed score.
BidFailureOutcome_Return(bidding_result_) ==
    [pc |-> "done", status |-> bidding_result_.code, advance |-> 0]

\* What the loop does when bidding_result is not ok: continue with the next
\* interest group, with nothing returned.
BidFailureOutcome(bidding_result_) ==
    [pc |-> "loop", status |-> "NONE", advance |-> 1]

\* Mutant: a failed score skipped like a failed bid.
ScoreFailureOutcome_Continue(ad_scoring_result) ==
    [pc |-> "loop", status |-> "NONE", advance |-> 1]

\* What the loop does when ad_scoring_result is not ok: return a grpc::Status
\* with the code of the scorer's status.
ScoreFailureOutcome(ad_scoring_result) ==
    [pc |-> "done", status |-> ad_scoring_result.code, advance |-> 0]

\* Mutant: the allow-set check left out.
IsAllowedBuyer_Always(interest_group_buyers, interest_group) == TRUE

\* The check that admits an interest group to the auction.
IsAllowedBuyer(interest_group_buyers, interest_group) ==
    interest_group.owner \in interest_group_buyers

\* Mutant: the comparator reversed.
SortsBefore_Ascending(first_bid, second_bid) ==
    first_bid.desirability_score < second_bid.desirability_score

\* The comparator handed to absl::c_sort.
SortsBefore(first_bid, second_bid) ==
    first_bid.desirability_score > second_bid.desirability_score

Bijections(n) ==
    { p \in [1..n -> 1..n] : \A a, b \in 1..n : a # b => p[a] # p[b] }

\* Mutant: the bids left in insertion order.
SortOutcomes_Unsorted(bids) == {bids}

\* absl::c_sort is std::sort, which is not stable: every arrangement of the
\* bids that is ordered by the comparator is a possible outcome.
SortOutcomes(bids) ==
    { sorted \in { [k \in 1..Len(bids) |-> bids[p[k]]] :
                      p \in Bijections(Len(bids)) } :
        \A a, b \in 1..Len(bids) :
            a < b => ~SortsBefore(sorted[b], sorted[a]) }

\* Mutant: a desirability score of zero accepted as a winner.
HasWinner_NonNegative(sorted) ==
    sorted # <<>> /\ sorted[1].desirability_score >= 0

\* The test that makes the front of the sorted bids the winning bid.
HasWinner(sorted) ==
    sorted # <<>> /\ sorted[1].desirability_score > 0

\* The response RunAdAuction fills from the sorted bids.
BuildResponse(sorted) ==
    IF HasWinner(sorted)
    THEN [has_winning_bid |-> TRUE,
          winning_bid |-> sorted[1],
          losing_bids |-> Tail(sorted)]
    ELSE [has_winning_bid |-> FALSE,
          winning_bid |-> DefaultScoredInterestGroupBid,
          losing_bids |-> sorted]

(***************************************************************************)
(* The configuration, the function source and the refresh thread.          *)
(***************************************************************************)
\* The URIs a Configuration may list, and the names a ComputeBidRequest may
\* carry: those URIs and one that no configuration lists.
FunctionUris == {"u1", "u2"}
RequestFunctionNames == FunctionUris \cup {"u0"}

\* Configuration: bidding_function_specs and ad_scoring_function_specs, each
\* a list of FunctionSpecification reduced to its uri.  One list repeats a
\* URI, one URI is listed under both roles.
Configurations ==
    { [bidding_function_specs |-> <<"u1">>,
       ad_scoring_function_specs |-> <<"u2">>],
      [bidding_function_specs |-> <<"u1">>,
       ad_scoring_function_specs |-> <<"u1">>],
      [bidding_function_specs |-> <<"u1", "u1">>,
       ad_scoring_function_specs |-> <<"u2">>] }

\* What the FunctionSource serves for every URI at one moment.
FunctionStores == [FunctionUris -> BidderSources]

\* The BiddingFunctionInput messages a ComputeBidRequest may carry.
ComputeBidInputs ==
    { [interest_group |-> InterestGroupAt(1, "o1", "u1"),
       per_buyer_signals |-> signals] : signals \in {1, 2} }

\* std::map<std::string, std::string> functions_code, empty.
EmptyCodes == [uri \in {} |-> "bad"]

\* An empty FunctionRepository: the value of a local that holds none.
EmptyRepository ==
    [bidding_functions_ |-> EmptyCodes, ad_scoring_functions_ |-> EmptyCodes]

\* Mutant: a URI inserted twice keeps one entry and is no error.
RECURSIVE InsertFunctionCodes_Overwrites(_, _, _)
InsertFunctionCodes_Overwrites(store, specifications, functions_code) ==
    IF specifications = <<>> THEN OkResult(functions_code)
    ELSE LET uri == Head(specifications)
         IN  IF store[uri] = "fetch_error"
             THEN ErrorResult("NOT_FOUND", EmptyCodes)
             ELSE InsertFunctionCodes_Overwrites(
                      store, Tail(specifications),
                      [u \in DOMAIN functions_code \cup {uri} |->
                          store[u]])

\* GetFunctionSourceCodes over the specifications in their order, from the
\* third parameter on: the first GetFunctionCode that fails returns its
\* status, a URI inserted twice is an invalid argument.
RECURSIVE InsertFunctionCodes(_, _, _)
InsertFunctionCodes(store, specifications, functions_code) ==
    IF specifications = <<>> THEN OkResult(functions_code)
    ELSE LET uri == Head(specifications)
         IN  IF store[uri] = "fetch_error"
             THEN ErrorResult("NOT_FOUND", EmptyCodes)
             ELSE IF uri \in DOMAIN functions_code
             THEN ErrorResult("INVALID_ARGUMENT", EmptyCodes)
             ELSE InsertFunctionCodes(store, Tail(specifications),
                                      functions_code @@ (uri :> store[uri]))

\* Mutant: a function that fails to compile is left out of the map.
CompiledFunctions_DropFailed(codes) ==
    [uri \in { u \in DOMAIN codes : CompileFunction(codes[u]).ok } |->
        CompileFunction(codes[uri]).value]

\* One of the two loops of CreateFunctionRepository over the source codes.
CompiledFunctions(codes) == CompileAll(codes)

\* The FunctionRepository that CreateFunctionRepository makes of the source
\* codes it fetched.
NewFunctionRepository(bidding_codes, scoring_codes) ==
    [bidding_functions_ |-> CompiledFunctions(bidding_codes),
     ad_scoring_functions_ |-> CompiledFunctions(scoring_codes)]

\* Mutant: a refresh that failed publishes an empty repository.
FailedRefreshOutcome_Empty(repository) == EmptyRepository

\* RefreshFunctionRepository when CreateFunctionRepository failed: the if
\* has no else, function_repository_ stays.
FailedRefreshOutcome(repository) == repository

\* The refresh thread between two runs of RefreshFunctionRepository;
\* last_status is what the last CreateFunctionRepository returned.
WaitingRefresher ==
    [pc |-> "waiting",
     bidding_function_source_codes |-> EmptyCodes,
     ad_scoring_function_source_codes |-> EmptyCodes,
     new_function_repository |-> EmptyRepository,
     last_status |-> "NONE"]

\* absl::StatusCode as the integer of the enumerator.
AbslStatusCode ==
    [OK |-> 0, INVALID_ARGUMENT |-> 3, NOT_FOUND |-> 5,
     FAILED_PRECONDITION |-> 9, INTERNAL |-> 13, UNAVAILABLE |-> 14]

\* Mutant: every error reported as UNKNOWN.
GrpcStatusCode_Unknown(code) == IF code = 0 THEN "OK" ELSE "UNKNOWN"

\* static_cast<grpc::StatusCode>: the enumerator of grpc::StatusCode with
\* the integer.
GrpcStatusCode(code) ==
    CASE code = 0 -> "OK"
      [] code = 3 -> "INVALID_ARGUMENT"
      [] code = 5 -> "NOT_FOUND"
      [] code = 9 -> "FAILED_PRECONDITION"
      [] code = 13 -> "INTERNAL"
      [] code = 14 -> "UNAVAILABLE"
      [] OTHER -> "UNKNOWN"

\* status().message() of what RunGenerateBidFunction returned: the text of
\* the repository's lookup error or of the failed invocation.
BiddingStatusMessage(bidding_result_, uri) ==
    CASE bidding_result_.code = "NOT_FOUND" ->
            <<"Bidding function ", uri, " not found">>
      [] bidding_result_.code = "UNAVAILABLE" ->
            <<"Bidding function ", uri, " is not available">>
      [] bidding_result_.code = "INTERNAL" ->
            <<"Error invoking the function", "", "">>
      [] OTHER -> <<"", "", "">>

\* No ComputeBid call has been made.  Of a call, source is the published
\* source code of the function it named and situation tells whether the
\* function source had changed since, or the last refresh had failed.
NoComputeBid ==
    [called |-> FALSE,
     bidding_function_name |-> "u0",
     input |-> [interest_group |-> InterestGroupAt(1, "o1", "u1"),
                per_buyer_signals |-> 0],
     error_code |-> "OK",
     error_message |-> <<"", "", "">>,
     response |-> DefaultBiddingFunctionOutput,
     source |-> "none",
     situation |-> "current"]

\* The auction of this module is served under its own configuration; the
\* refresh thread and ComputeBid are at rest in it.
RepositoryThreadsAtRest ==
    /\ configuration = [bidding_function_specs |-> <<"b1">>,
                        ad_scoring_function_specs |-> <<"s1">>]
    /\ function_source = EmptyCodes
    /\ refresher = WaitingRefresher
    /\ published_codes = [bidding |-> EmptyCodes, ad_scoring |-> EmptyCodes]
    /\ compute_bid = NoComputeBid

(***************************************************************************)
(* One compiled function: BiddingFunction (in process) and                 *)
(* SapiBiddingFunction (the same engine in a sandbox2 sandboxee).          *)
(***************************************************************************)
kBiddingFunctionWarmUpIterations == 10

\* The threads that may call BatchInvoke on the same function.
Callers == {"t1", "t2"}

\* The scripts a function is created from:
\*   "counter"   var global_counter = 0; returns { bid: global_counter++ }
\*   "perBuyer"  bids the per-buyer signals of its input
\*   "throw"     throws when invoked
\*   "throwOn2"  bids the per-buyer signals of its input, and throws when
\*               they are 2
\*   "spinOn2"   bids the per-buyer signals of its input, and loops for
\*               ever when they are 2
EngineScripts == {"counter", "perBuyer", "throw", "throwOn2", "spinOn2"}

\* The inputs of a BatchInvoke call, and BiddingFunctionInput().
EngineInputs == ComputeBidInputs
EmptyBiddingFunctionInput ==
    [interest_group |-> InterestGroupAt(1, "", ""), per_buyer_signals |-> 0]
EngineBatches ==
    UNION { [1..n -> EngineInputs] : n \in 1..MaxBatch }

\* InvokeFunctionOnce and ConvertOutput in a context whose script-global
\* state is global: the status, the output and the global state after it.
InvokeFunctionOnce(source, global, input) ==
    IF source = "counter"
    THEN [ok |-> TRUE, code |-> "OK",
          output |-> [bid |-> global, render_url |-> ""],
          global |-> global + 1]
    ELSE IF source \in {"throwOn2", "spinOn2"}
            /\ input.per_buyer_signals # 2
    THEN [ok |-> TRUE, code |-> "OK",
          output |-> [bid |-> input.per_buyer_signals, render_url |-> ""],
          global |-> global]
    ELSE [ok |-> InvokeBiddingFunction(source, input).ok,
          code |-> InvokeBiddingFunction(source, input).code,
          output |-> InvokeBiddingFunction(source, input).value,
          global |-> global]

\* Whether the script returns from its invocation on the input.  Nothing in
\* InvokeFunctionOnce ends a script that runs on: the only wait it bounds is
\* WaitForPromise's, for the promise the script has returned.
Terminates(source, input) ==
    ~(source = "spinOn2" /\ input.per_buyer_signals = 2)

\* WarmUpBiddingFunction: the remaining iterations on the empty input, every
\* status ignored, all in the context the script was run in.
RECURSIVE WarmUpBiddingFunction(_, _, _)
WarmUpBiddingFunction(source, global, iterations) ==
    IF iterations = 0 THEN global
    ELSE WarmUpBiddingFunction(
             source,
             InvokeFunctionOnce(source, global,
                                EmptyBiddingFunctionInput).global,
             iterations - 1)

\* BiddingFunction::Create for a script that compiles: the snapshot blob
\* holds the script-global state at the end of the warm-up.
CreateBiddingFunction(source) ==
    [source |-> source,
     startup_data |->
         WarmUpBiddingFunction(source, 0, kBiddingFunctionWarmUpIterations)]

\* The isolate with no thread in it.
FreeIsolate ==
    [owner |-> "none", inputs |-> <<>>, next_input |-> 1, outputs |-> <<>>,
     status |-> "OK", context_global |-> 0]

\* BiddingFunction::BatchInvoke up to the loop: the v8::Locker, and one
\* v8::Context::New(isolate_) from the snapshot for the whole call.
EnterIsolate(function, owner, inputs) ==
    [owner |-> owner, inputs |-> inputs, next_input |-> 1, outputs |-> <<>>,
     status |-> "OK", context_global |-> function.startup_data]

\* The for loop of BatchInvoke has ended, by its last input or by a failure.
LoopEnded(isolate_) ==
    \/ isolate_.status # "OK"
    \/ isolate_.next_input > Len(isolate_.inputs)

\* A loop that goes on to the next input after a failing one.
IsolateAfterInput_SkipsFailing(function, isolate_) ==
    LET invoked == InvokeFunctionOnce(function.source,
                                      isolate_.context_global,
                                      isolate_.inputs[isolate_.next_input])
    IN  [isolate_ EXCEPT
            !.outputs = IF invoked.ok
                        THEN Append(isolate_.outputs, invoked.output)
                        ELSE isolate_.outputs,
            !.next_input = isolate_.next_input + 1,
            !.context_global = invoked.global]

\* One iteration of the for loop of BatchInvoke: the output is appended and
\* the context keeps what the script did to its globals; the first failure
\* is the status of the call.
IsolateAfterInput(function, isolate_) ==
    LET invoked == InvokeFunctionOnce(function.source,
                                      isolate_.context_global,
                                      isolate_.inputs[isolate_.next_input])
    IN  IF invoked.ok
        THEN [isolate_ EXCEPT
                 !.outputs = Append(isolate_.outputs, invoked.output),
                 !.next_input = isolate_.next_input + 1,
                 !.context_global = invoked.global]
        ELSE [isolate_ EXCEPT !.status = invoked.code,
                              !.context_global = invoked.global]

\* What BatchInvoke returns at the end of the loop.
BatchInvokeResult(isolate_) ==
    IF isolate_.status = "OK" THEN OkResult(isolate_.outputs)
    ELSE ErrorResult(isolate_.status, <<>>)

\* The messages of the sandbox2 channel.
TagMessage(tag) ==
    [kind |-> "tlv", tag |-> tag, code |-> "OK", payload |-> <<>>]
ProtoMessage(payload) ==
    [kind |-> "proto", tag |-> "kTagProto", code |-> "OK",
     payload |-> payload]
StatusMessage(code) ==
    [kind |-> "status", tag |-> "kTagStatus", code |-> code,
     payload |-> <<>>]

\* The channel after Sandbox::Init and CompileFunction: no message, the
\* wall time limit disarmed, the sandboxee process alive.
IdleComms ==
    [to_sandboxee |-> <<>>, to_host |-> <<>>, wall_time_limit |-> FALSE,
     terminated |-> FALSE]

\* A thread that has not called BatchInvoke.
IdleCaller == [pc |-> "idle", inputs |-> <<>>, result |-> NotInvoked(<<>>)]

\* The auction and the refresh of this module do not follow the inside of
\* a function: its threads are at rest in them.
EngineAtRest ==
    /\ use_sandbox2 = FALSE
    /\ bidding_function = CreateBiddingFunction("perBuyer")
    /\ isolate = FreeIsolate
    /\ comms = IdleComms
    /\ callers = [t \in Callers |-> IdleCaller]

(***************************************************************************)
(* AdAuctionsImpl::Create from a configuration and a function source.      *)
(***************************************************************************)
MaxSpecifications == 2

\* The lists of FunctionSpecification of a configuration file.
SpecificationLists ==
    UNION { [1..n -> FunctionUris] : n \in 0..MaxSpecifications }

\* Every Configuration a configuration file can hold.
CreateConfigurations ==
    [bidding_function_specs : SpecificationLists,
     ad_scoring_function_specs : SpecificationLists]

\* The URI whose insert into functions_code fails: the first one of the list
\* that an earlier specification has.
DuplicateUri(specifications) ==
    LET repeated == { i \in 1..Len(specifications) :
                         \E j \in 1..(i - 1) :
                             specifications[j] = specifications[i] }
    IN  specifications[CHOOSE i \in repeated : \A j \in repeated : i <= j]

\* The message of the status of GetFunctionSourceCodes: absl::Substitute of
\* the URI for the insert that failed; the message of a failed
\* GetFunctionCode is the function source's and is not followed.
GetFunctionSourceCodesMessage(code, specifications) ==
    IF code = "INVALID_ARGUMENT"
    THEN <<"Function '", DuplicateUri(specifications),
           "' defined more than once in the configuration file.">>
    ELSE <<>>

\* Mutant: a function that does not compile fails the creation.
CreateOutcome_FailsOnCompileError(configuration_, store) ==
    LET bidding_codes ==
            InsertFunctionCodes(store, configuration_.bidding_function_specs,
                                EmptyCodes)
        scoring_codes ==
            InsertFunctionCodes(store,
                                configuration_.ad_scoring_function_specs,
                                EmptyCodes)
        failed(code, message) ==
            [ok |-> FALSE, code |-> code, message |-> message,
             repository |-> EmptyRepository,
             codes |-> [bidding |-> EmptyCodes, ad_scoring |-> EmptyCodes]]
    IN  IF ~bidding_codes.ok
        THEN failed(bidding_codes.code,
                    GetFunctionSourceCodesMessage(
                        bidding_codes.code,
                        configuration_.bidding_function_specs))
        ELSE IF ~scoring_codes.ok
        THEN failed(scoring_codes.code,
                    GetFunctionSourceCodesMessage(
                        scoring_codes.code,
                        configuration_.ad_scoring_function_specs))
        ELSE IF \E uri \in DOMAIN bidding_codes.value :
                    ~CompileFunction(bidding_codes.value[uri]).ok
        THEN failed("INVALID_ARGUMENT", <<>>)
        ELSE IF \E uri \in DOMAIN scoring_codes.value :
                    ~CompileFunction(scoring_codes.value[uri]).ok
        THEN failed("INVALID_ARGUMENT", <<>>)
        ELSE [ok |-> TRUE, code |-> "OK", message |-> <<>>,
              repository |-> NewFunctionRepository(bidding_codes.value,
                                                   scoring_codes.value),
              codes |-> [bidding |-> bidding_codes.value,
                         ad_scoring |-> scoring_codes.value]]

\* AdAuctionsImpl::Create: the status of CreateFunctionRepository, and when
\* it is ok the repository the new AdAuctionsImpl is constructed with.
CreateOutcome(configuration_, store) ==
    LET bidding_codes ==
            InsertFunctionCodes(store, configuration_.bidding_function_specs,
                                EmptyCodes)
        scoring_codes ==
            InsertFunctionCodes(store,
                                configuration_.ad_scoring_function_specs,
                                EmptyCodes)
        failed(code, message) ==
            [ok |-> FALSE, code |-> code, message |-> message,
             repository |-> EmptyRepository,
             codes |-> [bidding |-> EmptyCodes, ad_scoring |-> EmptyCodes]]
    IN  IF ~bidding_codes.ok
        THEN failed(bidding_codes.code,
                    GetFunctionSourceCodesMessage(
                        bidding_codes.code,
                        configuration_.bidding_function_specs))
        ELSE IF ~scoring_codes.ok
        THEN failed(scoring_codes.code,
                    GetFunctionSourceCodesMessage(
                        scoring_codes.code,
                        configuration_.ad_scoring_function_specs))
        ELSE [ok |-> TRUE, code |-> "OK", message |-> <<>>,
              repository |-> NewFunctionRepository(bidding_codes.value,
                                                   scoring_codes.value),
              codes |-> [bidding |-> bidding_codes.value,
                         ad_scoring |-> scoring_codes.value]]

\* AdAuctionsImpl::Create has not been called.
NotCreated ==
    [pc |-> "not_called", code |-> "NONE", message |-> <<>>,
     service |-> FALSE]

\* No PeriodicFunction has been constructed.
NoPeriodicFunction ==
    [reload_thread_ |-> "none", first_invocation_delay_ |-> 0,
     invocation_interval_ |-> 0, exit_notification_ |-> FALSE,
     waited |-> 0, invocations |-> 0, returns |-> 0,
     destructor |-> "not_called", notified_in |-> "none",
     destruction_wait |-> 0]

\* No sandboxee process has been started.  In a process that starts, the
\* variant single_bidding_function holds its first alternative, a null
\* pointer, and function_type is FUNCTION_TYPE_UNSPECIFIED.
NoSandboxee ==
    [pc |-> "none",
     function_type |-> "FUNCTION_TYPE_UNSPECIFIED",
     single_bidding_function |->
         [alternative |-> "FLEDGE_BIDDING_FUNCTION", function |-> "nullptr"],
     served |-> 0, last_op |-> "none", last_status |-> "NONE",
     last_outputs |-> <<>>, invoked |-> <<>>, compiled |-> <<>>]

\* No script has returned a promise: WaitForPromise has not been called.
NoPromise ==
    [pc |-> "none", state |-> "kPending", microtasks |-> <<>>,
     wait_duration |-> 0, elapsed |-> 0,
     ok |-> FALSE, code |-> "NONE", message |-> "", value |-> "none"]

\* FunctionSource::GetFunctionCode has not been called.
NoResolution ==
    [pc |-> "none", uri |-> <<>>, source_code |-> "nullopt",
     res |-> [error |-> TRUE, status |-> 0, body |-> ""],
     ok |-> FALSE, code |-> "NONE", value |-> ""]

\* The objects of a service that is not followed: repository 1 is the one
\* Create built, nobody holds function_repository_mutex_, repository_refresh_
\* waits, the destructor has not been called.
NoLifetime ==
    [function_repository_ |-> 1, alive |-> {1}, candidate |-> 0,
     readers |-> {}, function |-> [t \in Callers |-> 0],
     refresher |-> "waiting", notified |-> FALSE,
     repository_refresh_ |-> "running",
     repository_destroyed |-> FALSE]

\* The parts followed on their own are at rest in the other specifications.
StandaloneAtRest ==
    /\ creation = NotCreated
    /\ periodic_function = NoPeriodicFunction
    /\ sandboxee = NoSandboxee
    /\ promise = NoPromise
    /\ resolution = NoResolution
    /\ lifetime = NoLifetime

(***************************************************************************)
(* The state after AdAuctionsImpl::Create succeeded.                       *)
(***************************************************************************)
Init ==
    /\ \E bidding_sources \in [BiddingUris -> BidderSources],
          scoring_sources \in [ScoringUris -> ScorerSources] :
          /\ CreateFunctionRepository(bidding_sources, scoring_sources).ok
          /\ function_repository_ =
                 CreateFunctionRepository(bidding_sources,
                                          scoring_sources).value
    /\ pc = "idle"
    /\ request = DefaultRequest
    /\ next_group = 1
    /\ bidding_result = NotInvoked(DefaultBiddingFunctionOutput)
    /\ scored_bids = <<>>
    /\ response = DefaultResponse
    /\ status = "NONE"
    /\ bid_log = <<>>
    /\ score_log = <<>>
    /\ entry_snapshot_published = TRUE
    /\ lookups_on_entry_snapshot = TRUE
    /\ RepositoryThreadsAtRest
    /\ EngineAtRest
    /\ StandaloneAtRest

(***************************************************************************)
(* AdAuctionsImpl::RefreshFunctionRepository, run by the periodic          *)
(* function.  The candidate is built without the mutex; the swap under the *)
(* writer lock is the only step that touches shared state.                 *)
(***************************************************************************)
RefreshFunctionRepository ==
    \E bidding_sources \in [BiddingUris -> BidderSources],
       scoring_sources \in [ScoringUris -> ScorerSources] :
        LET repository_or_status ==
                CreateFunctionRepository(bidding_sources, scoring_sources)
        IN  /\ IF repository_or_status.ok
               THEN /\ function_repository_' = repository_or_status.value
                    /\ entry_snapshot_published' = FALSE
               ELSE UNCHANGED <<function_repository_,
                                entry_snapshot_published>>
            /\ UNCHANGED outside_auction_vars
            /\ UNCHANGED request_vars

(***************************************************************************)
(* AdAuctionsImpl::RunAdAuction.                                           *)
(***************************************************************************)
\* Entry: the allow-set and the empty scored_bids vector.
StartRunAdAuction ==
    /\ pc = "idle"
    /\ \E r \in Requests : request' = r
    /\ pc' = "loop"
    /\ next_group' = 1
    /\ bidding_result' = NotInvoked(DefaultBiddingFunctionOutput)
    /\ scored_bids' = <<>>
    /\ response' = DefaultResponse
    /\ status' = "NONE"
    /\ bid_log' = <<>>
    /\ score_log' = <<>>
    /\ entry_snapshot_published' = TRUE
    /\ lookups_on_entry_snapshot' = TRUE
    /\ UNCHANGED outside_auction_vars
    /\ UNCHANGED function_repository_

\* An iteration for an interest group whose owner is not an allowed buyer.
SkipDisallowedBuyer ==
    /\ pc = "loop"
    /\ next_group <= Len(request.interest_groups)
    /\ ~IsAllowedBuyer(request.auction_configuration.interest_group_buyers,
                       request.interest_groups[next_group])
    /\ next_group' = next_group + 1
    /\ bid_log' = Append(bid_log, NotInvoked(DefaultBiddingFunctionOutput))
    /\ score_log' =
           Append(score_log, NotInvoked(DefaultAdScoringFunctionOutput))
    /\ UNCHANGED outside_auction_vars
    /\ UNCHANGED <<function_repository_, pc, request, bidding_result,
                   scored_bids, response, status, entry_snapshot_published,
                   lookups_on_entry_snapshot>>

\* An iteration up to the end of RunGenerateBidFunction: the reader lock is
\* held from the lookup to the end of the invocation.
GenerateBid ==
    /\ pc = "loop"
    /\ next_group <= Len(request.interest_groups)
    /\ IsAllowedBuyer(request.auction_configuration.interest_group_buyers,
                      request.interest_groups[next_group])
    /\ LET interest_group == request.interest_groups[next_group]
           result ==
               RunGenerateBidFunction(
                   function_repository_,
                   interest_group.bidding_logic_url,
                   CreateBiddingFunctionInput(interest_group,
                                              request.auction_configuration))
       IN  /\ bid_log' = Append(bid_log, result)
           /\ IF result.ok
              THEN /\ bidding_result' = result
                   /\ pc' = "score"
                   /\ UNCHANGED <<next_group, score_log, status>>
              ELSE /\ next_group' =
                          next_group + BidFailureOutcome(result).advance
                   /\ pc' = BidFailureOutcome(result).pc
                   /\ status' = BidFailureOutcome(result).status
                   /\ score_log' =
                          Append(score_log,
                                 NotInvoked(DefaultAdScoringFunctionOutput))
                   /\ UNCHANGED bidding_result
    /\ lookups_on_entry_snapshot' =
           (lookups_on_entry_snapshot /\ entry_snapshot_published)
    /\ UNCHANGED outside_auction_vars
    /\ UNCHANGED <<function_repository_, request, scored_bids, response,
                   entry_snapshot_published>>

\* The rest of the iteration: RunScoreAdFunction under its own reader lock,
\* then either the early return or the push_back.
ScoreAd ==
    /\ pc = "score"
    /\ LET interest_group == request.interest_groups[next_group]
           result ==
               RunScoreAdFunction(
                   function_repository_,
                   request.auction_configuration.decision_logic_url,
                   CreateAdScoringInputs(bidding_result.value,
                                         request.auction_configuration,
                                         request.trusted_scoring_signals))
       IN  /\ score_log' = Append(score_log, result)
           /\ IF result.ok
              THEN /\ scored_bids' =
                          Append(scored_bids,
                                 GetScoredInterestGroupBid(
                                     interest_group, bidding_result.value,
                                     result.value))
                   /\ next_group' = next_group + 1
                   /\ pc' = "loop"
                   /\ UNCHANGED status
              ELSE /\ status' = ScoreFailureOutcome(result).status
                   /\ pc' = ScoreFailureOutcome(result).pc
                   /\ next_group' =
                          next_group + ScoreFailureOutcome(result).advance
                   /\ UNCHANGED scored_bids
    /\ bidding_result' = NotInvoked(DefaultBiddingFunctionOutput)
    /\ lookups_on_entry_snapshot' =
           (lookups_on_entry_snapshot /\ entry_snapshot_published)
    /\ UNCHANGED outside_auction_vars
    /\ UNCHANGED <<function_repository_, request, response, bid_log,
                   entry_snapshot_published>>

\* After the loop: sort, pick the winner, fill the response, return OK.
FinishRunAdAuction ==
    /\ pc = "loop"
    /\ next_group > Len(request.interest_groups)
    /\ \E sorted \in SortOutcomes(scored_bids) :
          /\ scored_bids' = sorted
          /\ response' = BuildResponse(sorted)
    /\ status' = "OK"
    /\ pc' = "done"
    /\ UNCHANGED outside_auction_vars
    /\ UNCHANGED <<function_repository_, request, next_group, bidding_result,
                   bid_log, score_log, entry_snapshot_published,
                   lookups_on_entry_snapshot>>

\* The call has returned; the worker thread is free for the next request.
ReturnToIdle ==
    /\ pc = "done"
    /\ pc' = "idle"
    /\ request' = DefaultRequest
    /\ next_group' = 1
    /\ bidding_result' = NotInvoked(DefaultBiddingFunctionOutput)
    /\ scored_bids' = <<>>
    /\ response' = DefaultResponse
    /\ status' = "NONE"
    /\ bid_log' = <<>>
    /\ score_log' = <<>>
    /\ entry_snapshot_published' = TRUE
    /\ lookups_on_entry_snapshot' = TRUE
    /\ UNCHANGED outside_auction_vars
    /\ UNCHANGED function_repository_

Next ==
    \/ RefreshFunctionRepository
    \/ StartRunAdAuction
    \/ SkipDisallowedBuyer
    \/ GenerateBid
    \/ ScoreAd
    \/ FinishRunAdAuction
    \/ ReturnToIdle

Spec == Init /\ [][Next]_vars

(***************************************************************************)
(* The refresh thread step by step, the function source changing under it, *)
(* and ComputeBid, for a server built from any accepted configuration.     *)
(***************************************************************************)
\* No RunAdAuction call is being served.
NoRunAdAuction ==
    /\ pc = "idle"
    /\ request = DefaultRequest
    /\ next_group = 1
    /\ bidding_result = NotInvoked(DefaultBiddingFunctionOutput)
    /\ scored_bids = <<>>
    /\ response = DefaultResponse
    /\ status = "NONE"
    /\ bid_log = <<>>
    /\ score_log = <<>>
    /\ entry_snapshot_published = TRUE
    /\ lookups_on_entry_snapshot = TRUE

\* AdAuctionsImpl::Create: the server exists only if the initial
\* CreateFunctionRepository succeeded.
RefreshInit ==
    /\ \E c \in Configurations, store \in FunctionStores :
          LET bidding_codes ==
                  InsertFunctionCodes(store, c.bidding_function_specs,
                                      EmptyCodes)
              scoring_codes ==
                  InsertFunctionCodes(store, c.ad_scoring_function_specs,
                                      EmptyCodes)
          IN  /\ bidding_codes.ok
              /\ scoring_codes.ok
              /\ configuration = c
              /\ function_source = store
              /\ function_repository_ =
                     NewFunctionRepository(bidding_codes.value,
                                           scoring_codes.value)
              /\ published_codes = [bidding |-> bidding_codes.value,
                                    ad_scoring |-> scoring_codes.value]
    /\ refresher = WaitingRefresher
    /\ compute_bid = NoComputeBid
    /\ NoRunAdAuction
    /\ EngineAtRest
    /\ StandaloneAtRest

\* The owner of a function publishes another script, or withdraws it.
ChangeFunctionSource ==
    /\ \E uri \in FunctionUris, source \in BidderSources :
          /\ function_source[uri] # source
          /\ function_source' = [function_source EXCEPT ![uri] = source]
    /\ UNCHANGED <<function_repository_, request_vars,
                   entry_snapshot_published, configuration, refresher,
                   published_codes, compute_bid, engine_vars,
                   standalone_vars>>

\* RefreshFunctionRepository returning without a swap.
AbandonRefresh(status_code) ==
    /\ refresher' = [WaitingRefresher EXCEPT !.last_status = status_code]
    /\ function_repository_' = FailedRefreshOutcome(function_repository_)

\* CreateFunctionRepository, first GetFunctionSourceCodes call.
FetchBiddingFunctionSourceCodes ==
    /\ refresher.pc = "waiting"
    /\ LET codes == InsertFunctionCodes(
                        function_source,
                        configuration.bidding_function_specs, EmptyCodes)
       IN  IF codes.ok
           THEN /\ refresher' =
                       [refresher EXCEPT
                           !.pc = "bidding_fetched",
                           !.bidding_function_source_codes = codes.value]
                /\ UNCHANGED function_repository_
           ELSE AbandonRefresh(codes.code)
    /\ UNCHANGED <<request_vars, entry_snapshot_published, configuration,
                   function_source, published_codes, compute_bid, engine_vars,
                   standalone_vars>>

\* Mutant: the refresh thread compiles into the published repository.
CreateNewFunctionRepository_PublishesEarly ==
    /\ refresher.pc = "bidding_fetched"
    /\ LET codes == InsertFunctionCodes(
                        function_source,
                        configuration.ad_scoring_function_specs, EmptyCodes)
       IN  IF codes.ok
           THEN /\ refresher' =
                       [refresher EXCEPT
                           !.pc = "created",
                           !.ad_scoring_function_source_codes = codes.value,
                           !.new_function_repository =
                               NewFunctionRepository(
                                   refresher.bidding_function_source_codes,
                                   codes.value)]
                /\ function_repository_' =
                       NewFunctionRepository(
                           refresher.bidding_function_source_codes,
                           codes.value)
           ELSE AbandonRefresh(codes.code)
    /\ UNCHANGED <<request_vars, entry_snapshot_published, configuration,
                   function_source, published_codes, compute_bid, engine_vars,
                   standalone_vars>>

\* CreateFunctionRepository, second GetFunctionSourceCodes call and the two
\* compile loops: the new repository is a local of the refresh thread.
CreateNewFunctionRepository ==
    /\ refresher.pc = "bidding_fetched"
    /\ LET codes == InsertFunctionCodes(
                        function_source,
                        configuration.ad_scoring_function_specs, EmptyCodes)
       IN  IF codes.ok
           THEN /\ refresher' =
                       [refresher EXCEPT
                           !.pc = "created",
                           !.ad_scoring_function_source_codes = codes.value,
                           !.new_function_repository =
                               NewFunctionRepository(
                                   refresher.bidding_function_source_codes,
                                   codes.value)]
                /\ UNCHANGED function_repository_
           ELSE AbandonRefresh(codes.code)
    /\ UNCHANGED <<request_vars, entry_snapshot_published, configuration,
                   function_source, published_codes, compute_bid, engine_vars,
                   standalone_vars>>

\* Mutant: only the bidding functions of the new repository are installed.
SwapFunctionRepository_BiddingOnly ==
    /\ refresher.pc = "created"
    /\ function_repository_' =
           [function_repository_ EXCEPT
               !.bidding_functions_ =
                   refresher.new_function_repository.bidding_functions_]
    /\ published_codes' =
           [bidding |-> refresher.bidding_function_source_codes,
            ad_scoring |-> refresher.ad_scoring_function_source_codes]
    /\ refresher' = [WaitingRefresher EXCEPT !.last_status = "OK"]
    /\ UNCHANGED <<request_vars, entry_snapshot_published, configuration,
                   function_source, compute_bid, engine_vars,
                   standalone_vars>>

\* Mutant: the thread returns as if it had swapped, and did not.
SwapFunctionRepository_NoSwap ==
    /\ refresher.pc = "created"
    /\ published_codes' =
           [bidding |-> refresher.bidding_function_source_codes,
            ad_scoring |-> refresher.ad_scoring_function_source_codes]
    /\ refresher' = [WaitingRefresher EXCEPT !.last_status = "OK"]
    /\ UNCHANGED <<function_repository_, request_vars,
                   entry_snapshot_published, configuration, function_source,
                   compute_bid, engine_vars,
                   standalone_vars>>

\* Mutant: the swap installs only the functions whose compiled script
\* differs from the one published before.
SwapFunctionRepository_OnlyChanged ==
    /\ refresher.pc = "created"
    /\ LET Changed(new, old) ==
               [uri \in { u \in DOMAIN new :
                             u \notin DOMAIN old \/ new[u] # old[u] } |->
                   new[uri]]
           new_repository == refresher.new_function_repository
       IN  function_repository_' =
               [bidding_functions_ |->
                    Changed(new_repository.bidding_functions_,
                            function_repository_.bidding_functions_),
                ad_scoring_functions_ |->
                    Changed(new_repository.ad_scoring_functions_,
                            function_repository_.ad_scoring_functions_)]
    /\ published_codes' =
           [bidding |-> refresher.bidding_function_source_codes,
            ad_scoring |-> refresher.ad_scoring_function_source_codes]
    /\ refresher' = [WaitingRefresher EXCEPT !.last_status = "OK"]
    /\ UNCHANGED <<request_vars, entry_snapshot_published, configuration,
                   function_source, compute_bid, engine_vars,
                   standalone_vars>>

\* RefreshFunctionRepository, the assignment under the writer lock.
SwapFunctionRepository ==
    /\ refresher.pc = "created"
    /\ function_repository_' = refresher.new_function_repository
    /\ published_codes' =
           [bidding |-> refresher.bidding_function_source_codes,
            ad_scoring |-> refresher.ad_scoring_function_source_codes]
    /\ refresher' = [WaitingRefresher EXCEPT !.last_status = "OK"]
    /\ UNCHANGED <<request_vars, entry_snapshot_published, configuration,
                   function_source, compute_bid, engine_vars,
                   standalone_vars>>

\* AdAuctionsImpl::ComputeBid: RunGenerateBidFunction holds the reader lock
\* from the lookup to the end of the invocation, so the call is one step.
ComputeBid ==
    /\ \E name \in RequestFunctionNames, input \in ComputeBidInputs :
          LET bidding_result_ ==
                  RunGenerateBidFunction(function_repository_, name, input)
          IN  compute_bid' =
                  [called |-> TRUE,
                   bidding_function_name |-> name,
                   input |-> input,
                   error_code |->
                       GrpcStatusCode(AbslStatusCode[bidding_result_.code]),
                   error_message |->
                       BiddingStatusMessage(bidding_result_, name),
                   response |->
                       IF bidding_result_.ok THEN bidding_result_.value
                       ELSE DefaultBiddingFunctionOutput,
                   source |->
                       IF name \in DOMAIN published_codes.bidding
                       THEN published_codes.bidding[name]
                       ELSE "none",
                   situation |->
                       IF refresher.last_status \notin {"NONE", "OK"}
                       THEN "refresh_failed"
                       ELSE IF \E uri \in DOMAIN published_codes.bidding :
                                   function_source[uri] #
                                       published_codes.bidding[uri]
                       THEN "source_changed"
                       ELSE "current"]
    /\ UNCHANGED <<function_repository_, request_vars,
                   entry_snapshot_published, configuration, function_source,
                   refresher, published_codes, engine_vars,
                   standalone_vars>>

RefreshNext ==
    \/ ChangeFunctionSource
    \/ FetchBiddingFunctionSourceCodes
    \/ CreateNewFunctionRepository
    \/ SwapFunctionRepository
    \/ ComputeBid

RefreshSpec == RefreshInit /\ [][RefreshNext]_vars

(***************************************************************************)
(* Vocabulary of the properties.                                           *)
(***************************************************************************)
\* The call has returned / has returned OK.
Returned == pc = "done"
ReturnedOk == pc = "done" /\ status = "OK"

\* The bids of the response in response order: the winner, then the losers.
ResponseBids ==
    IF response.has_winning_bid
    THEN <<response.winning_bid>> \o response.losing_bids
    ELSE response.losing_bids

\* The position in the request of the interest group with a given name.
PositionOf(name) ==
    CHOOSE k \in 1..Len(GroupNames) : GroupNames[k] = name

\* The function at position k of a log was called and failed / succeeded.
CallFailed(log, k) ==
    k \in 1..Len(log) /\ ~log[k].ok /\ log[k].code # "NOT_INVOKED"
CallSucceeded(log, k) == k \in 1..Len(log) /\ log[k].ok

\* The owner of the interest group at position k is an allowed buyer.
OwnerAllowed(k) ==
    request.interest_groups[k].owner \in
        request.auction_configuration.interest_group_buyers

\* The positions whose bid was scored, and the scored bid each one stands for.
ScoredPositions == { k \in 1..Len(score_log) : score_log[k].ok }
ExpectedScoredBid(k) ==
    [interest_group_owner |-> request.interest_groups[k].owner,
     interest_group_name |-> request.interest_groups[k].name,
     bid_price |-> bid_log[k].value.bid,
     render_url |-> bid_log[k].value.render_url,
     desirability_score |-> score_log[k].value.desirability_score]
ExpectedScoredBids == { ExpectedScoredBid(k) : k \in ScoredPositions }
ScoresOf(bids) == { b.desirability_score : b \in bids }

\* No bid of the response or of scored_bids belongs to position k.
AbsentFromAuction(k) ==
    /\ \A j \in 1..Len(ResponseBids) :
          ResponseBids[j].interest_group_name # GroupNames[k]
    /\ \A j \in 1..Len(scored_bids) :
          scored_bids[j].interest_group_name # GroupNames[k]

(***************************************************************************)
(* C1.  Every bidder and scorer lookup of one RunAdAuction request reads   *)
(* the repository that was published when the request started.  The code   *)
(* takes the reader lock per call, so a refresh between two calls breaks   *)
(* this: TLC finds the invariant violated.                                 *)
(***************************************************************************)
C1_LookupsReadEntrySnapshot == lookups_on_entry_snapshot

(***************************************************************************)
(* C2.  When RunAdAuction returns OK there is a winning bid iff some bid   *)
(* was scored and the highest score is strictly positive; the winner then  *)
(* has the highest score and the losers are exactly the other scored bids; *)
(* otherwise every scored bid is a loser.                                  *)
(***************************************************************************)
C2_WinnerIffPositiveTopScore ==
    ReturnedOk =>
        /\ response.has_winning_bid <=>
               (\E x \in ScoresOf(ExpectedScoredBids) : x > 0)
        /\ response.has_winning_bid =>
               /\ response.winning_bid \in ExpectedScoredBids
               /\ \A x \in ScoresOf(ExpectedScoredBids) :
                     response.winning_bid.desirability_score >= x
               /\ { response.losing_bids[j] :
                       j \in 1..Len(response.losing_bids) } =
                      ExpectedScoredBids \ {response.winning_bid}
               /\ Len(response.losing_bids) = Cardinality(ScoredPositions) - 1
        /\ ~response.has_winning_bid =>
               /\ { response.losing_bids[j] :
                       j \in 1..Len(response.losing_bids) } =
                      ExpectedScoredBids
               /\ Len(response.losing_bids) = Cardinality(ScoredPositions)

\* A returned auction with a winner and a loser.
C2_Witness ==
    /\ ReturnedOk
    /\ response.has_winning_bid
    /\ Len(response.losing_bids) >= 1

(***************************************************************************)
(* C3.  In every response the losers are in non-increasing order of        *)
(* desirability score, and a winner has a strictly positive score that is  *)
(* at least the score of every loser.                                      *)
(***************************************************************************)
C3_LosersSortedWinnerOnTop ==
    /\ \A a, b \in 1..Len(response.losing_bids) :
          a < b => response.losing_bids[a].desirability_score >=
                       response.losing_bids[b].desirability_score
    /\ response.has_winning_bid =>
          /\ response.winning_bid.desirability_score > 0
          /\ \A a \in 1..Len(response.losing_bids) :
                response.winning_bid.desirability_score >=
                    response.losing_bids[a].desirability_score

\* A returned auction without a winner whose losers have different scores.
C3_Witness ==
    /\ ReturnedOk
    /\ ~response.has_winning_bid
    /\ Len(response.losing_bids) >= 2
    /\ response.losing_bids[1].desirability_score >
           response.losing_bids[2].desirability_score

(***************************************************************************)
(* C4, as claimed.  Scored bids with equal scores appear in the response   *)
(* in request order, so that among bids tied for the highest positive      *)
(* score the earliest is the winner.  std::sort does not keep the order of *)
(* equal elements: TLC finds the invariant violated.                       *)
(***************************************************************************)
C4_TiesKeepRequestOrder ==
    ReturnedOk =>
        \A a, b \in 1..Len(ResponseBids) :
            (a < b /\ ResponseBids[a].desirability_score =
                          ResponseBids[b].desirability_score)
                => PositionOf(ResponseBids[a].interest_group_name) <
                       PositionOf(ResponseBids[b].interest_group_name)

(***************************************************************************)
(* C4, amended.  The scored bids appear in the response in non-increasing  *)
(* order of score, bids with equal scores in either order; a winner is one *)
(* of the bids with the highest score, not necessarily the earliest.       *)
(***************************************************************************)
C4_DescendingTiesInAnyOrder ==
    ReturnedOk =>
        /\ \A a, b \in 1..Len(ResponseBids) :
              a < b => ResponseBids[a].desirability_score >=
                           ResponseBids[b].desirability_score
        /\ response.has_winning_bid =>
              \E k \in ScoredPositions :
                  /\ response.winning_bid = ExpectedScoredBid(k)
                  /\ \A j \in ScoredPositions :
                        score_log[j].value.desirability_score <=
                            score_log[k].value.desirability_score

\* A returned auction whose winner is the later of two tied interest groups.
C4_Witness ==
    /\ ReturnedOk
    /\ response.has_winning_bid
    /\ \E b \in 1..Len(response.losing_bids) :
          /\ response.losing_bids[b].desirability_score =
                 response.winning_bid.desirability_score
          /\ PositionOf(response.losing_bids[b].interest_group_name) <
                 PositionOf(response.winning_bid.interest_group_name)

(***************************************************************************)
(* C5, as claimed.  Every request whose decision_logic_url names no        *)
(* configured scorer fails with NOT_FOUND.  A request none of whose        *)
(* interest groups obtains a bid never looks the scorer up and returns OK: *)
(* TLC finds the invariant violated.                                       *)
(***************************************************************************)
C5_MissingScorerAlwaysNotFound ==
    (Returned /\ request.auction_configuration.decision_logic_url
                     \notin ScoringUris)
        => status = "NOT_FOUND"

(***************************************************************************)
(* C5, amended.  Every request whose decision_logic_url names no           *)
(* configured scorer and in which at least one interest group obtains a    *)
(* bid fails with NOT_FOUND.                                               *)
(***************************************************************************)
C5_MissingScorerNotFoundOnceBid ==
    (/\ Returned
     /\ request.auction_configuration.decision_logic_url \notin ScoringUris
     /\ \E k \in 1..Len(bid_log) : bid_log[k].ok)
        => status = "NOT_FOUND"

\* A request with an unconfigured scorer failed at its second interest group,
\* the first one having been dropped.
C5_Witness ==
    /\ Returned
    /\ request.auction_configuration.decision_logic_url \notin ScoringUris
    /\ Len(bid_log) = 2
    /\ bid_log[2].ok
    /\ status = "NOT_FOUND"

(***************************************************************************)
(* C6.  If the scorer call fails for a candidate that produced a bid, the  *)
(* auction fails with the code of that failure (NOT_FOUND, UNAVAILABLE or  *)
(* INTERNAL) and the response has neither a winning bid nor losing bids,   *)
(* even if earlier candidates were scored.                                 *)
(***************************************************************************)
C6_ScorerFailureFailsAuction ==
    \A k \in 1..Len(score_log) :
        CallFailed(score_log, k) =>
            /\ Returned
            /\ bid_log[k].ok
            /\ status = score_log[k].code
            /\ status \in {"NOT_FOUND", "UNAVAILABLE", "INTERNAL"}
            /\ ~response.has_winning_bid
            /\ response.losing_bids = <<>>

\* The scorer became unavailable after the first candidate was scored.
C6_Witness ==
    /\ Returned
    /\ Len(score_log) = 2
    /\ score_log[1].ok
    /\ score_log[2].code = "UNAVAILABLE"
    /\ status = "UNAVAILABLE"

(***************************************************************************)
(* C7.  A candidate whose bidder call fails (not configured, unavailable   *)
(* or failing when invoked) is dropped: it is not scored, it is in neither *)
(* the winner nor the losers, the auction fails only on a scorer failure,  *)
(* and an auction that returns OK has called the bidder of every allowed   *)
(* interest group and the scorer for every bid.                            *)
(***************************************************************************)
C7_FailedBidderDropped ==
    /\ \A k \in 1..Len(bid_log) :
          CallFailed(bid_log, k) =>
              /\ bid_log[k].code \in {"NOT_FOUND", "UNAVAILABLE", "INTERNAL"}
              /\ score_log[k].code = "NOT_INVOKED"
              /\ AbsentFromAuction(k)
    /\ (Returned /\ status # "OK") =>
          \E k \in 1..Len(score_log) : CallFailed(score_log, k)
    /\ ReturnedOk =>
          /\ Len(bid_log) = Len(request.interest_groups)
          /\ Len(score_log) = Len(request.interest_groups)
          /\ \A k \in 1..Len(request.interest_groups) :
                /\ OwnerAllowed(k) => bid_log[k].code # "NOT_INVOKED"
                /\ bid_log[k].ok => score_log[k].ok

\* An unavailable bidder dropped, the next candidate wins.
C7_Witness ==
    /\ ReturnedOk
    /\ Len(bid_log) = 2
    /\ bid_log[1].code = "UNAVAILABLE"
    /\ response.has_winning_bid
    /\ response.winning_bid.interest_group_name = GroupNames[2]
    /\ response.losing_bids = <<>>

(***************************************************************************)
(* C8.  An interest group whose owner is not in interest_group_buyers is   *)
(* never the winner nor a loser, and neither its bidder nor the scorer is  *)
(* called for it.                                                          *)
(***************************************************************************)
C8_DisallowedOwnerSkipped ==
    \A k \in 1..Len(bid_log) :
        ~OwnerAllowed(k) =>
            /\ bid_log[k].code = "NOT_INVOKED"
            /\ k \in 1..Len(score_log) => score_log[k].code = "NOT_INVOKED"
            /\ AbsentFromAuction(k)

\* A disallowed interest group with an available bidder, skipped in an
\* auction that another interest group won.
C8_Witness ==
    /\ ReturnedOk
    /\ response.has_winning_bid
    /\ \E k \in 1..Len(request.interest_groups) :
          /\ ~OwnerAllowed(k)
          /\ request.interest_groups[k].bidding_logic_url \in BiddingUris
          /\ function_repository_.bidding_functions_[
                 request.interest_groups[k].bidding_logic_url] = "perBuyer"

(***************************************************************************)
(* C9.  A request with no eligible candidate (no interest groups, or every *)
(* one filtered by the allow-set or dropped at the bidder) returns OK with *)
(* no winning bid and no losing bids.                                      *)
(***************************************************************************)
C9_NoCandidateReturnsEmptyOk ==
    (/\ Returned
     /\ \A k \in 1..Len(request.interest_groups) :
           \/ ~OwnerAllowed(k)
           \/ CallFailed(bid_log, k))
        => /\ status = "OK"
           /\ ~response.has_winning_bid
           /\ response.losing_bids = <<>>

\* One interest group filtered and one dropped at the bidder, the scorer not
\* configured.
C9_Witness ==
    /\ Returned
    /\ Len(request.interest_groups) = 2
    /\ \E k \in 1..2 : ~OwnerAllowed(k)
    /\ \E k \in 1..2 : CallFailed(bid_log, k)
    /\ request.auction_configuration.decision_logic_url \notin ScoringUris
    /\ status = "OK"

(***************************************************************************)
(* C10.  When RunAdAuction returns OK, the winner and the losers together  *)
(* hold exactly one ScoredBid for each interest group that passed the      *)
(* allow-set and whose bidder and scorer succeeded, with the group's owner *)
(* and name, the render_url and bid of its bidder output and the score of  *)
(* its scorer output.                                                      *)
(***************************************************************************)
C10_ResponseIsTheScoredBids ==
    ReturnedOk =>
        /\ ScoredPositions =
               { k \in 1..Len(request.interest_groups) :
                    OwnerAllowed(k) /\ CallSucceeded(bid_log, k)
                                    /\ CallSucceeded(score_log, k) }
        /\ Len(ResponseBids) = Cardinality(ScoredPositions)
        /\ \A k \in ScoredPositions :
              \E j \in 1..Len(ResponseBids) :
                  ResponseBids[j] = ExpectedScoredBid(k)
        /\ \A j \in 1..Len(ResponseBids) :
              \E k \in ScoredPositions :
                  ResponseBids[j] = ExpectedScoredBid(k)

\* Two scored bids returned, one with a score different from its price.
C10_Witness ==
    /\ ReturnedOk
    /\ Len(ResponseBids) = 2
    /\ \E j \in 1..2 :
          ResponseBids[j].bid_price # ResponseBids[j].desirability_score

(***************************************************************************)
(* Threads calling BatchInvoke on one function, in process or through the  *)
(* sandbox.  Each thread makes one call.                                   *)
(***************************************************************************)
outside_engine_vars == <<function_repository_, request_vars,
                         entry_snapshot_published, repository_vars,
                         standalone_vars>>

\* A function created from any script that compiles, with or without the
\* sandbox, on its own as in the tests of the function: no repository, no
\* request.
EngineInit ==
    /\ use_sandbox2 \in BOOLEAN
    /\ \E source \in EngineScripts :
          bidding_function = CreateBiddingFunction(source)
    /\ isolate = FreeIsolate
    /\ comms = IdleComms
    /\ callers = [t \in Callers |-> IdleCaller]
    /\ function_repository_ = EmptyRepository
    /\ NoRunAdAuction
    /\ RepositoryThreadsAtRest
    /\ StandaloneAtRest

\* BiddingFunction::BatchInvoke called on the server's own thread: it waits
\* for the v8::Locker and creates the context of the call.
BatchInvokeInProcess(t) ==
    /\ ~use_sandbox2
    /\ callers[t].pc = "idle"
    /\ isolate.owner = "none"
    /\ \E inputs \in EngineBatches :
          /\ callers' = [callers EXCEPT ![t].pc = "in_isolate",
                                        ![t].inputs = inputs]
          /\ isolate' = EnterIsolate(bidding_function, t, inputs)
    /\ UNCHANGED <<use_sandbox2, bidding_function, comms,
                   outside_engine_vars>>

\* One iteration of the for loop of BatchInvoke, by the thread that holds
\* the Locker: the first failure ends the loop.
InvokeNextInput ==
    /\ isolate.owner # "none"
    /\ ~LoopEnded(isolate)
    /\ Terminates(bidding_function.source,
                  isolate.inputs[isolate.next_input])
    /\ isolate' = IsolateAfterInput(bidding_function, isolate)
    /\ UNCHANGED <<use_sandbox2, bidding_function, comms, callers,
                   outside_engine_vars>>

\* BiddingFunction::BatchInvoke returns on the server's own thread.
ReturnInProcess(t) ==
    /\ isolate.owner = t
    /\ LoopEnded(isolate)
    /\ callers' = [callers EXCEPT ![t].pc = "done",
                                  ![t].result = BatchInvokeResult(isolate)]
    /\ isolate' = FreeIsolate
    /\ UNCHANGED <<use_sandbox2, bidding_function, comms,
                   outside_engine_vars>>

\* SapiBiddingFunction::BatchInvoke: SetWallTimeLimit and the SendTLV of
\* Sandbox::BatchExecute.  No lock is taken.
SendBatchExecute(t) ==
    /\ use_sandbox2
    /\ callers[t].pc = "idle"
    /\ \E inputs \in EngineBatches :
          callers' = [callers EXCEPT ![t].pc = "tag_sent",
                                     ![t].inputs = inputs]
    /\ comms' = [comms EXCEPT
                    !.to_sandboxee = Append(comms.to_sandboxee,
                                            TagMessage("kBatchExecute")),
                    !.wall_time_limit = TRUE]
    /\ UNCHANGED <<use_sandbox2, bidding_function, isolate,
                   outside_engine_vars>>

\* Sandbox::BatchExecute, SendProtoBuf(inputs).
SendInputs(t) ==
    /\ callers[t].pc = "tag_sent"
    /\ callers' = [callers EXCEPT ![t].pc = "inputs_sent"]
    /\ comms' = [comms EXCEPT
                    !.to_sandboxee =
                        Append(comms.to_sandboxee,
                               ProtoMessage(callers[t].inputs))]
    /\ UNCHANGED <<use_sandbox2, bidding_function, isolate,
                   outside_engine_vars>>

\* The sandboxee's ServeRequest up to BatchExecuteFunction: RecvTLV, and
\* for kBatchExecute the RecvProtoBuf, which fails on a message that is no
\* protocol buffer; a tag the switch does not know is dropped.
ServeRequest ==
    /\ use_sandbox2
    /\ ~comms.terminated
    /\ isolate.owner = "none"
    /\ comms.to_sandboxee # <<>>
    /\ LET first == Head(comms.to_sandboxee)
           rest == Tail(comms.to_sandboxee)
       IN  IF first.tag # "kBatchExecute"
           THEN /\ comms' = [comms EXCEPT !.to_sandboxee = rest]
                /\ UNCHANGED isolate
           ELSE /\ rest # <<>>
                /\ IF Head(rest).kind = "proto"
                   THEN /\ comms' = [comms EXCEPT
                                        !.to_sandboxee = Tail(rest)]
                        /\ isolate' = EnterIsolate(bidding_function,
                                                   "sandboxee",
                                                   Head(rest).payload)
                   ELSE /\ comms' =
                               [comms EXCEPT
                                   !.to_sandboxee = Tail(rest),
                                   !.to_host =
                                       Append(comms.to_host,
                                              StatusMessage(
                                                  "INVALID_ARGUMENT"))]
                        /\ UNCHANGED isolate
    /\ UNCHANGED <<use_sandbox2, bidding_function, callers,
                   outside_engine_vars>>

\* ServeRequest after BatchExecuteFunction: SendStatus and, when it is ok,
\* SendProtoBuf(outputs).
ServeRequestReply ==
    /\ isolate.owner = "sandboxee"
    /\ LoopEnded(isolate)
    /\ comms' =
           [comms EXCEPT
               !.to_host =
                   IF isolate.status = "OK"
                   THEN comms.to_host \o
                            <<StatusMessage("OK"),
                              ProtoMessage(isolate.outputs)>>
                   ELSE Append(comms.to_host,
                               StatusMessage(isolate.status))]
    /\ isolate' = FreeIsolate
    /\ UNCHANGED <<use_sandbox2, bidding_function, callers,
                   outside_engine_vars>>

\* Sandbox::BatchExecute, RecvStatus: the next message from the sandboxee,
\* whichever request it answers.  A status that is not ok, or a message that
\* is no status, ends the call; the wall time limit is disarmed.
RecvStatus(t) ==
    /\ callers[t].pc = "inputs_sent"
    /\ comms.to_host # <<>>
    /\ LET message == Head(comms.to_host)
       IN  IF message.kind = "status" /\ message.code = "OK"
           THEN /\ callers' = [callers EXCEPT ![t].pc = "status_received"]
                /\ comms' = [comms EXCEPT !.to_host = Tail(comms.to_host)]
           ELSE /\ callers' =
                       [callers EXCEPT
                           ![t].pc = "done",
                           ![t].result =
                               ErrorResult(IF message.kind = "status"
                                           THEN message.code
                                           ELSE "INTERNAL", <<>>)]
                /\ comms' = [comms EXCEPT !.to_host = Tail(comms.to_host),
                                          !.wall_time_limit = FALSE]
    /\ UNCHANGED <<use_sandbox2, bidding_function, isolate,
                   outside_engine_vars>>

\* Sandbox::BatchExecute, RecvProtoBuf(&outputs), and the rest of
\* SapiBiddingFunction::BatchInvoke.
RecvOutputs(t) ==
    /\ callers[t].pc = "status_received"
    /\ comms.to_host # <<>>
    /\ LET message == Head(comms.to_host)
       IN  callers' =
               [callers EXCEPT
                   ![t].pc = "done",
                   ![t].result =
                       IF message.kind = "proto"
                       THEN OkResult(message.payload)
                       ELSE ErrorResult("INTERNAL", <<>>)]
    /\ comms' = [comms EXCEPT !.to_host = Tail(comms.to_host),
                              !.wall_time_limit = FALSE]
    /\ UNCHANGED <<use_sandbox2, bidding_function, isolate,
                   outside_engine_vars>>

\* The wall time limit set by SetWallTimeLimit runs out while the sandboxee
\* is in an invocation that does not return: the sandbox ends the sandboxee
\* process.  (An invocation that returns does so within the limit.)
WallTimeLimitExpires ==
    /\ use_sandbox2
    /\ comms.wall_time_limit
    /\ ~comms.terminated
    /\ isolate.owner = "sandboxee"
    /\ ~LoopEnded(isolate)
    /\ ~Terminates(bidding_function.source,
                   isolate.inputs[isolate.next_input])
    /\ comms' = [comms EXCEPT !.terminated = TRUE]
    /\ isolate' = FreeIsolate
    /\ UNCHANGED <<use_sandbox2, bidding_function, callers,
                   outside_engine_vars>>

\* SapiBiddingFunction::BatchInvoke on a sandbox whose sandboxee has been
\* ended: the SetWallTimeLimit, or the send or receive of BatchExecute,
\* fails, and the call returns that error.
BatchInvokeOnTerminated(t) ==
    /\ use_sandbox2
    /\ comms.terminated
    /\ callers[t].pc # "done"
    /\ \E code \in {"INTERNAL", "UNAVAILABLE"} :
          callers' = [callers EXCEPT
                         ![t].pc = "done",
                         ![t].result = ErrorResult(code, <<>>)]
    /\ UNCHANGED <<use_sandbox2, bidding_function, isolate, comms,
                   outside_engine_vars>>

EngineNext ==
    \/ \E t \in Callers : BatchInvokeInProcess(t)
    \/ InvokeNextInput
    \/ \E t \in Callers : ReturnInProcess(t)
    \/ \E t \in Callers : SendBatchExecute(t)
    \/ \E t \in Callers : SendInputs(t)
    \/ ServeRequest
    \/ ServeRequestReply
    \/ \E t \in Callers : RecvStatus(t)
    \/ \E t \in Callers : RecvOutputs(t)
    \/ WallTimeLimitExpires
    \/ \E t \in Callers : BatchInvokeOnTerminated(t)

EngineSpec == EngineInit /\ [][EngineNext]_vars

\* The threads of the server and the sandboxee process keep running: a step
\* that stays possible is taken.
EngineLiveSpec == EngineSpec /\ WF_vars(EngineNext)

(***************************************************************************)
(* One PeriodicFunction: its reload thread, the time that passes, and the  *)
(* owner that destroys it.  Time is counted in units.                      *)
(***************************************************************************)
MaxDuration == 2
MaxInvocations == 3

\* first_invocation_delay and invocation_interval.
Durations == 0..MaxDuration

\* Mutant: the wait times out at once.
WaitForNotificationWithTimeout_NoWait(notified, waited, timeout) ==
    IF notified THEN "notified" ELSE "timeout"

\* Mutant: the wait sleeps its whole timeout before it looks at the
\* notification.
WaitForNotificationWithTimeout_SleepsThrough(notified, waited, timeout) ==
    IF waited < timeout THEN "blocked"
    ELSE IF notified THEN "notified" ELSE "timeout"

\* exit_notification_.WaitForNotificationWithTimeout(timeout) after the
\* thread has waited so long: it returns true as soon as the notification
\* is there, false when the timeout has run out without it, and blocks
\* otherwise.
WaitForNotificationWithTimeout(notified, waited, timeout) ==
    IF notified THEN "notified"
    ELSE IF waited >= timeout THEN "timeout"
    ELSE "blocked"

\* The wait the reload thread is in, and what it returns now.
ReloadThreadWait ==
    WaitForNotificationWithTimeout(
        periodic_function.exit_notification_,
        periodic_function.waited,
        IF periodic_function.reload_thread_ = "first_wait"
        THEN periodic_function.first_invocation_delay_
        ELSE periodic_function.invocation_interval_)

outside_periodic_vars == <<function_repository_, request_vars,
                           entry_snapshot_published, repository_vars,
                           engine_vars, creation, sandboxee, promise,
                           resolution, lifetime>>

\* PeriodicFunction::PeriodicFunction: the members are initialized and the
\* reload thread is started, into its first wait.
PeriodicInit ==
    /\ \E delay \in Durations, interval \in Durations :
          periodic_function =
              [NoPeriodicFunction EXCEPT
                  !.reload_thread_ = "first_wait",
                  !.first_invocation_delay_ = delay,
                  !.invocation_interval_ = interval]
    /\ function_repository_ = EmptyRepository
    /\ NoRunAdAuction
    /\ RepositoryThreadsAtRest
    /\ EngineAtRest
    /\ creation = NotCreated
    /\ sandboxee = NoSandboxee
    /\ promise = NoPromise
    /\ resolution = NoResolution
    /\ lifetime = NoLifetime

\* One unit of time passes.  The reload thread is asleep in its wait, or in
\* the callback; the time of a wait is counted, and so is the time an owner
\* in the destructor spends while the thread sleeps.
Tick ==
    /\ periodic_function.reload_thread_ \in {"first_wait", "interval_wait"}
    /\ ReloadThreadWait = "blocked"
    /\ periodic_function' =
           [periodic_function EXCEPT
               !.waited = @ + 1,
               !.destruction_wait =
                   IF periodic_function.destructor = "joining"
                   THEN @ + 1 ELSE @]
    /\ UNCHANGED outside_periodic_vars

\* Mutant: the thread goes on to the callback when its first wait was
\* notified.
FirstWaitReturns_NoReturn ==
    /\ periodic_function.reload_thread_ = "first_wait"
    /\ ReloadThreadWait # "blocked"
    /\ periodic_function.invocations < MaxInvocations
    /\ periodic_function' =
           [periodic_function EXCEPT !.reload_thread_ = "in_function",
                                     !.invocations = @ + 1]
    /\ UNCHANGED outside_periodic_vars

\* The first WaitForNotificationWithTimeout returns: true ends the thread,
\* false enters the do loop and invokes function_.
FirstWaitReturns ==
    /\ periodic_function.reload_thread_ = "first_wait"
    /\ \/ /\ ReloadThreadWait = "notified"
          /\ periodic_function' =
                 [periodic_function EXCEPT !.reload_thread_ = "exited"]
       \/ /\ ReloadThreadWait = "timeout"
          /\ periodic_function.invocations < MaxInvocations
          /\ periodic_function' =
                 [periodic_function EXCEPT !.reload_thread_ = "in_function",
                                           !.invocations = @ + 1]
    /\ UNCHANGED outside_periodic_vars

\* function_() returns, and the thread starts the wait of the while
\* condition.
FunctionReturns ==
    /\ periodic_function.reload_thread_ = "in_function"
    /\ periodic_function' =
           [periodic_function EXCEPT !.reload_thread_ = "interval_wait",
                                     !.returns = @ + 1,
                                     !.waited = 0]
    /\ UNCHANGED outside_periodic_vars

\* The WaitForNotificationWithTimeout of the while condition returns: true
\* ends the loop and the thread, false invokes function_ again.
IntervalWaitReturns ==
    /\ periodic_function.reload_thread_ = "interval_wait"
    /\ \/ /\ ReloadThreadWait = "notified"
          /\ periodic_function' =
                 [periodic_function EXCEPT !.reload_thread_ = "exited"]
       \/ /\ ReloadThreadWait = "timeout"
          /\ periodic_function.invocations < MaxInvocations
          /\ periodic_function' =
                 [periodic_function EXCEPT !.reload_thread_ = "in_function",
                                           !.invocations = @ + 1]
    /\ UNCHANGED outside_periodic_vars

\* PeriodicFunction::~PeriodicFunction, exit_notification_.Notify().
Destroy ==
    /\ periodic_function.destructor = "not_called"
    /\ periodic_function' =
           [periodic_function EXCEPT
               !.exit_notification_ = TRUE,
               !.destructor = "joining",
               !.notified_in = periodic_function.reload_thread_]
    /\ UNCHANGED outside_periodic_vars

\* PeriodicFunction::~PeriodicFunction, reload_thread_->join() returns.
JoinReturns ==
    /\ periodic_function.destructor = "joining"
    /\ periodic_function.reload_thread_ = "exited"
    /\ periodic_function' =
           [periodic_function EXCEPT !.destructor = "returned"]
    /\ UNCHANGED outside_periodic_vars

PeriodicNext ==
    \/ Tick
    \/ FirstWaitReturns
    \/ FunctionReturns
    \/ IntervalWaitReturns
    \/ Destroy
    \/ JoinReturns

PeriodicSpec == PeriodicInit /\ [][PeriodicNext]_vars

\* The reload thread keeps running, the callback returns, and the join
\* returns once the thread has ended.
PeriodicLiveSpec ==
    /\ PeriodicSpec
    /\ WF_vars(FirstWaitReturns)
    /\ WF_vars(FunctionReturns)
    /\ WF_vars(IntervalWaitReturns)
    /\ WF_vars(JoinReturns)

(***************************************************************************)
(* The adapter inside one sandboxee process: the request loop of main and  *)
(* the sandbox-wide function, with requests in any order.                  *)
(***************************************************************************)
MaxRequests == 4

\* BiddingFunctionSpec messages: a script for a role, or with no role.
BiddingFunctionSpecs ==
    [bidding_function_source : {"perBuyer", "bad"},
     type : {"FLEDGE_BIDDING_FUNCTION", "FUNCTION_TYPE_UNSPECIFIED"}]
    \cup [bidding_function_source : {"same", "bad"},
          type : {"FLEDGE_AD_SCORING_FUNCTION"}]

\* google.protobuf.Any messages of BatchedInvocationInputs: a packed
\* BiddingFunctionInput or a packed AdScoringFunctionInput.
AnyInputs ==
    { [message_type |-> "FLEDGE_BIDDING_FUNCTION",
       value |-> [interest_group |-> InterestGroupAt(1, "o1", "u1"),
                  per_buyer_signals |-> 1, bid |-> 0]],
      [message_type |-> "FLEDGE_AD_SCORING_FUNCTION",
       value |-> [interest_group |-> InterestGroupAt(1, "o1", "u1"),
                  per_buyer_signals |-> 0, bid |-> 2]] }

BatchedInvocationInputs ==
    UNION { [1..n -> AnyInputs] : n \in 1..MaxBatch }

\* CompileFunction of the adapter and DoCompileFunction: the status, and the
\* sandbox-wide function and its type after the call.  The function is
\* created before the type is looked at.
SapiCompileFunction(sandboxee_, spec) ==
    LET unchanged(code) ==
            [status |-> code,
             function_type |-> sandboxee_.function_type,
             single_bidding_function |->
                 sandboxee_.single_bidding_function]
    IN  IF spec.type \notin {"FLEDGE_BIDDING_FUNCTION",
                             "FLEDGE_AD_SCORING_FUNCTION"}
        THEN unchanged("INVALID_ARGUMENT")
        ELSE IF ~CompileFunction(spec.bidding_function_source).ok
        THEN unchanged(CompileFunction(spec.bidding_function_source).code)
        ELSE IF sandboxee_.function_type # "FUNCTION_TYPE_UNSPECIFIED"
        THEN unchanged("FAILED_PRECONDITION")
        ELSE [status |-> "OK",
              function_type |-> spec.type,
              single_bidding_function |->
                  [alternative |-> spec.type,
                   function |-> spec.bidding_function_source]]

\* BatchInvoke of the function of a role on unpacked inputs: the outputs so
\* far and the invocations made, up to the first failure.
RECURSIVE SapiBatchInvoke(_, _, _, _, _)
SapiBatchInvoke(role, function, inputs, outputs, invocations) ==
    IF inputs = <<>>
    THEN [status |-> "OK", outputs |-> outputs, invoked |-> invocations]
    ELSE LET result ==
                 IF role = "FLEDGE_BIDDING_FUNCTION"
                 THEN InvokeBiddingFunction(function, Head(inputs))
                 ELSE InvokeAdScoringFunction(function, Head(inputs))
             invoked == Append(invocations,
                               [role |-> role, function |-> function,
                                input |-> Head(inputs)])
         IN  IF result.ok
             THEN SapiBatchInvoke(role, function, Tail(inputs),
                                  Append(outputs, result.value), invoked)
             ELSE [status |-> result.code, outputs |-> <<>>,
                   invoked |-> invoked]

\* DoBatchExecuteFunction<Input, Output> for the role: the pointer of that
\* alternative, every input unpacked as the Input of the role, BatchInvoke.
DoBatchExecuteFunction(role, sandboxee_, invocation_inputs) ==
    IF \E i \in 1..Len(invocation_inputs) :
           invocation_inputs[i].message_type # role
    THEN [status |-> "INVALID_ARGUMENT", outputs |-> <<>>, invoked |-> <<>>]
    ELSE SapiBatchInvoke(
             role, sandboxee_.single_bidding_function.function,
             [i \in 1..Len(invocation_inputs) |->
                 invocation_inputs[i].value],
             <<>>, <<>>)

\* Mutant: no check that a function has been initialized.
BatchExecuteFunction_NoCheck(sandboxee_, invocation_inputs) ==
    IF sandboxee_.function_type \in {"FLEDGE_BIDDING_FUNCTION",
                                     "FLEDGE_AD_SCORING_FUNCTION"}
    THEN DoBatchExecuteFunction(sandboxee_.function_type, sandboxee_,
                                invocation_inputs)
    ELSE [status |-> "INVALID_ARGUMENT", outputs |-> <<>>, invoked |-> <<>>]

\* BatchExecuteFunction of the adapter: the status, the outputs and the
\* invocations made.
BatchExecuteFunction(sandboxee_, invocation_inputs) ==
    IF sandboxee_.function_type = "FUNCTION_TYPE_UNSPECIFIED"
    THEN [status |-> "FAILED_PRECONDITION", outputs |-> <<>>,
          invoked |-> <<>>]
    ELSE IF sandboxee_.function_type \in {"FLEDGE_BIDDING_FUNCTION",
                                          "FLEDGE_AD_SCORING_FUNCTION"}
    THEN DoBatchExecuteFunction(sandboxee_.function_type, sandboxee_,
                                invocation_inputs)
    ELSE [status |-> "INVALID_ARGUMENT", outputs |-> <<>>, invoked |-> <<>>]

outside_sandboxee_vars == <<function_repository_, request_vars,
                            entry_snapshot_published, repository_vars,
                            engine_vars, creation, periodic_function,
                            promise, resolution, lifetime>>

\* The sandboxee process at the start of its request loop.
SandboxeeInit ==
    /\ sandboxee = [NoSandboxee EXCEPT !.pc = "serving"]
    /\ function_repository_ = EmptyRepository
    /\ NoRunAdAuction
    /\ RepositoryThreadsAtRest
    /\ EngineAtRest
    /\ creation = NotCreated
    /\ periodic_function = NoPeriodicFunction
    /\ promise = NoPromise
    /\ resolution = NoResolution
    /\ lifetime = NoLifetime

\* ServeRequest, case kCompile: RecvProtoBuf(&spec), CompileFunction,
\* SendStatus.
ServeCompile ==
    /\ sandboxee.pc = "serving"
    /\ sandboxee.served < MaxRequests
    /\ \E spec \in BiddingFunctionSpecs :
          LET compilation == SapiCompileFunction(sandboxee, spec)
          IN  sandboxee' =
                  [sandboxee EXCEPT
                      !.function_type = compilation.function_type,
                      !.single_bidding_function =
                          compilation.single_bidding_function,
                      !.served = @ + 1,
                      !.last_op = "kCompile",
                      !.last_status = compilation.status,
                      !.last_outputs = <<>>,
                      !.compiled = IF compilation.status = "OK"
                                   THEN Append(@, spec) ELSE @]
    /\ UNCHANGED outside_sandboxee_vars

\* ServeRequest, case kBatchExecute: RecvProtoBuf(&invocation_inputs),
\* BatchExecuteFunction, SendStatus and, when ok, SendProtoBuf(outputs).
ServeBatchExecute ==
    /\ sandboxee.pc = "serving"
    /\ sandboxee.served < MaxRequests
    /\ \E invocation_inputs \in BatchedInvocationInputs :
          LET execution == BatchExecuteFunction(sandboxee, invocation_inputs)
          IN  sandboxee' =
                  [sandboxee EXCEPT
                      !.served = @ + 1,
                      !.last_op = "kBatchExecute",
                      !.last_status = execution.status,
                      !.last_outputs = execution.outputs,
                      !.invoked = @ \o execution.invoked]
    /\ UNCHANGED outside_sandboxee_vars

\* ServeRequest, case kMsgExit: exit(0).
ServeMsgExit ==
    /\ sandboxee.pc = "serving"
    /\ sandboxee' = [sandboxee EXCEPT !.pc = "exited",
                                      !.last_op = "kMsgExit"]
    /\ UNCHANGED outside_sandboxee_vars

SandboxeeNext ==
    \/ ServeCompile
    \/ ServeBatchExecute
    \/ ServeMsgExit

SandboxeeSpec == SandboxeeInit /\ [][SandboxeeNext]_vars

(***************************************************************************)
(* The creation of the service: AdAuctionsImpl::Create called once with a  *)
(* configuration and a function source.                                    *)
(***************************************************************************)
\* Before the call: any configuration, any function source, no service.
CreateInit ==
    /\ configuration \in CreateConfigurations
    /\ function_source \in FunctionStores
    /\ creation = NotCreated
    /\ function_repository_ = EmptyRepository
    /\ published_codes = [bidding |-> EmptyCodes, ad_scoring |-> EmptyCodes]
    /\ refresher = WaitingRefresher
    /\ compute_bid = NoComputeBid
    /\ NoRunAdAuction
    /\ EngineAtRest
    /\ periodic_function = NoPeriodicFunction
    /\ sandboxee = NoSandboxee
    /\ promise = NoPromise
    /\ resolution = NoResolution
    /\ lifetime = NoLifetime

\* AdAuctionsImpl::Create: ASSIGN_OR_RETURN of CreateFunctionRepository,
\* then the constructor with the initial repository.
Create ==
    /\ creation.pc = "not_called"
    /\ LET outcome == CreateOutcome(configuration, function_source)
       IN  /\ creation' = [pc |-> "returned", code |-> outcome.code,
                           message |-> outcome.message,
                           service |-> outcome.ok]
           /\ function_repository_' = outcome.repository
           /\ published_codes' = outcome.codes
    /\ UNCHANGED <<request_vars, entry_snapshot_published, configuration,
                   function_source, refresher, compute_bid, engine_vars,
                   periodic_function, sandboxee, promise, resolution,
                   lifetime>>

CreateNext == Create

CreateSpec == CreateInit /\ [][CreateNext]_vars

(***************************************************************************)
(* WaitForPromise, followed on its own: the script has returned a promise, *)
(* and the engine runs microtask checkpoints until the promise is settled  *)
(* or FLAGS_bidding_function_async_wait has elapsed.  Time is counted in   *)
(* ticks from the call (absl::Now() - start).                              *)
(***************************************************************************)
\* What the microtasks queued by the script do when they run: how long each
\* runs and whether it fulfills or rejects the promise the script returned.
\* A script whose promise never resolves queues nothing.
MicrotaskQueues ==
    LET Microtasks == [duration : Durations,
                       settles : {"none", "fulfill", "reject"}]
    IN  {<<>>} \cup { <<m>> : m \in Microtasks }
               \cup { <<m, n>> : m, n \in Microtasks }

\* The state of everything but the wait.
outside_promise_vars == <<function_repository_, request_vars,
                          entry_snapshot_published, repository_vars,
                          engine_vars, creation, periodic_function,
                          sandboxee, resolution, lifetime>>

\* WaitForPromise is entered: start = absl::Now(), wait_duration is the flag.
PromiseInit ==
    /\ \E queue \in MicrotaskQueues, wait \in Durations :
          promise = [NoPromise EXCEPT !.pc = "waiting",
                                      !.microtasks = queue,
                                      !.wait_duration = wait]
    /\ function_repository_ = EmptyRepository
    /\ NoRunAdAuction
    /\ RepositoryThreadsAtRest
    /\ EngineAtRest
    /\ creation = NotCreated
    /\ periodic_function = NoPeriodicFunction
    /\ sandboxee = NoSandboxee
    /\ resolution = NoResolution
    /\ lifetime = NoLifetime

\* One turn of the while loop: the promise is pending and the deadline has
\* not passed when the condition is evaluated, and
\* PerformMicrotaskCheckpoint runs every queued microtask to its end.  A
\* promise is settled by the first microtask that settles it.  A checkpoint
\* with nothing queued takes one tick.
PerformMicrotaskCheckpoint ==
    /\ promise.pc = "waiting"
    /\ promise.state = "kPending"
    /\ promise.elapsed < promise.wait_duration
    /\ LET queue == promise.microtasks
           RECURSIVE Duration(_)
           Duration(i) == IF i = 0 THEN 0
                          ELSE Duration(i - 1) + queue[i].duration
           settling == { i \in 1..Len(queue) : queue[i].settles # "none" }
           first == CHOOSE i \in settling : \A j \in settling : i <= j
       IN  promise' =
             [promise EXCEPT
                !.microtasks = <<>>,
                !.elapsed = IF queue = <<>> THEN @ + 1
                            ELSE @ + Duration(Len(queue)),
                !.state = IF settling = {} THEN "kPending"
                          ELSE IF queue[first].settles = "fulfill"
                               THEN "kFulfilled" ELSE "kRejected"]
    /\ UNCHANGED outside_promise_vars

\* The loop has ended; the switch on promise->State().
WaitForPromise ==
    /\ promise.pc = "waiting"
    /\ ~(promise.state = "kPending"
         /\ promise.elapsed < promise.wait_duration)
    /\ promise' =
         CASE promise.state = "kFulfilled" ->
                [promise EXCEPT !.pc = "returned", !.ok = TRUE,
                                !.code = "OK", !.value = "Result"]
           [] promise.state = "kRejected" ->
                [promise EXCEPT !.pc = "returned",
                     !.code = "INVALID_ARGUMENT",
                     !.message = "Async javascript function failed: "]
           [] promise.state = "kPending" ->
                [promise EXCEPT !.pc = "returned",
                     !.code = "INVALID_ARGUMENT",
                     !.message = "Async javascript function timed out."]
    /\ UNCHANGED outside_promise_vars

PromiseNext ==
    \/ PerformMicrotaskCheckpoint
    \/ WaitForPromise

PromiseSpec == PromiseInit /\ [][PromiseNext]_vars

(***************************************************************************)
(* FunctionSource::GetFunctionCode, followed on its own.  A URI is the     *)
(* sequence of its pieces: "local" and "http" are runs of lower-case       *)
(* letters, "Host" a run of other characters a host may hold, "80" a run   *)
(* of digits, and ":", "/", "?" and "#" are themselves.                    *)
(***************************************************************************)
\* local://Host, local://Host/Host, http://Host:80/Host, http://Host/Host,
\* http://Host, http://Host:80, then: Host (the bad-url of the tests),
\* Host:80/Host, #: , the empty string, http://, http://Host:/Host,
\* http://Host#Host, local:Host, http://Host:80Host.
Uris ==
    {<<"local", ":", "/", "/", "Host">>,
     <<"local", ":", "/", "/", "Host", "/", "Host">>,
     <<"http", ":", "/", "/", "Host", ":", "80", "/", "Host">>,
     <<"http", ":", "/", "/", "Host", "/", "Host">>,
     <<"http", ":", "/", "/", "Host">>,
     <<"http", ":", "/", "/", "Host", ":", "80">>,
     <<"Host">>,
     <<"Host", ":", "80", "/", "Host">>,
     <<"#", ":">>,
     <<>>,
     <<"http", ":", "/", "/">>,
     <<"http", ":", "/", "/", "Host", ":", "/", "Host">>,
     <<"http", ":", "/", "/", "Host", "#", "Host">>,
     <<"local", ":", "Host">>,
     <<"http", ":", "/", "/", "Host", ":", "80", "Host">>}

\* What cli.Get returns: no result (the connection failed), or a response
\* with its status and body.
HttpResults ==
    {[error |-> TRUE, status |-> 0, body |-> ""]} \cup
    [error : {FALSE},
     status : {200, 204, 301, 400, 401, 403, 404, 500},
     body : {"body"}]

\* std::regex_match(specification.uri, m, url_re): the groups of
\* ^((?:([a-z]+)://)?([^:/?#]+)(?::(\d+))?)(/.*)?$ .  Each repetition takes
\* the longest run; a shorter one never lets the rest match, the piece after
\* a run being of the same class.
url_re(uri) ==
    LET Lower == {"local", "http"}
        Digits == {"80"}
        HostChars == {"local", "http", "Host", "80"}
        RECURSIVE Run(_, _)
        Run(class, i) ==
            IF i <= Len(uri) /\ uri[i] \in class
            THEN 1 + Run(class, i + 1) ELSE 0
        letters == Run(Lower, 1)
        has_scheme == /\ letters >= 1
                      /\ Len(uri) >= letters + 3
                      /\ SubSeq(uri, letters + 1, letters + 3) =
                             <<":", "/", "/">>
        host_start == IF has_scheme THEN letters + 4 ELSE 1
        host_end == host_start + Run(HostChars, host_start)
        digits == IF host_end <= Len(uri) /\ uri[host_end] = ":"
                  THEN Run(Digits, host_end + 1) ELSE 0
        port_end == IF digits >= 1 THEN host_end + 1 + digits ELSE host_end
        matched == /\ host_end > host_start
                   /\ \/ port_end > Len(uri)
                      \/ uri[port_end] = "/"
    IN  [matched |-> matched,
         scheme |-> IF matched /\ has_scheme THEN SubSeq(uri, 1, letters)
                    ELSE <<>>,
         scheme_host_port |-> IF matched THEN SubSeq(uri, 1, port_end - 1)
                              ELSE <<>>,
         path |-> IF matched THEN SubSeq(uri, port_end, Len(uri)) ELSE <<>>]

\* Mutant: 401 and 403 fall into the default case.
TranslateResponse_DeniedIsInternal(res) ==
    CASE res.status = 200 -> [ok |-> TRUE, code |-> "OK", value |-> res.body]
      [] res.status = 400 ->
            [ok |-> FALSE, code |-> "INVALID_ARGUMENT", value |-> ""]
      [] res.status = 404 ->
            [ok |-> FALSE, code |-> "NOT_FOUND", value |-> ""]
      [] OTHER -> [ok |-> FALSE, code |-> "INTERNAL", value |-> ""]

\* TranslateResponse: the switch on res->status.
TranslateResponse(res) ==
    CASE res.status = 200 -> [ok |-> TRUE, code |-> "OK", value |-> res.body]
      [] res.status = 400 ->
            [ok |-> FALSE, code |-> "INVALID_ARGUMENT", value |-> ""]
      [] res.status \in {401, 403} ->
            [ok |-> FALSE, code |-> "PERMISSION_DENIED", value |-> ""]
      [] res.status = 404 ->
            [ok |-> FALSE, code |-> "NOT_FOUND", value |-> ""]
      [] OTHER -> [ok |-> FALSE, code |-> "INTERNAL", value |-> ""]

\* The state of everything but the resolution.
outside_resolution_vars == <<function_repository_, request_vars,
                             entry_snapshot_published, repository_vars,
                             engine_vars, creation, periodic_function,
                             sandboxee, promise, lifetime>>

\* A specification, with or without inline source code (which may be the
\* empty string), and what the server of a remote URI would answer.
ResolutionInit ==
    /\ \E uri \in Uris, source_code \in {"nullopt", "", "code"},
          res \in HttpResults :
          resolution = [NoResolution EXCEPT !.pc = "called",
                                            !.uri = uri,
                                            !.source_code = source_code,
                                            !.res = res]
    /\ function_repository_ = EmptyRepository
    /\ NoRunAdAuction
    /\ RepositoryThreadsAtRest
    /\ EngineAtRest
    /\ creation = NotCreated
    /\ periodic_function = NoPeriodicFunction
    /\ sandboxee = NoSandboxee
    /\ promise = NoPromise
    /\ lifetime = NoLifetime

\* FunctionSource::GetFunctionCode.
GetFunctionCode ==
    /\ resolution.pc = "called"
    /\ LET m == url_re(resolution.uri)
           InvalidArgument ==
               [ok |-> FALSE, code |-> "INVALID_ARGUMENT", value |-> ""]
           result ==
               IF ~m.matched THEN InvalidArgument
               ELSE IF m.scheme = <<>> THEN InvalidArgument
               ELSE IF m.scheme = <<"local">>
               THEN IF resolution.source_code = "nullopt"
                    THEN InvalidArgument
                    ELSE [ok |-> TRUE, code |-> "OK",
                          value |-> resolution.source_code]
               ELSE IF resolution.res.error
               THEN [ok |-> FALSE, code |-> "INTERNAL", value |-> ""]
               ELSE TranslateResponse(resolution.res)
       IN  resolution' = [resolution EXCEPT !.pc = "returned",
                                            !.ok = result.ok,
                                            !.code = result.code,
                                            !.value = result.value]
    /\ UNCHANGED outside_resolution_vars

ResolutionNext == GetFunctionCode

ResolutionSpec == ResolutionInit /\ [][ResolutionNext]_vars

(***************************************************************************)
(* The repository objects of a service, function_repository_mutex_ and     *)
(* the destructor, followed on their own.  A FunctionRepository, with the  *)
(* compiled functions it owns, is a number; alive holds the ones that are  *)
(* not destroyed.  The threads of Callers serve requests.                  *)
(***************************************************************************)
\* The state of everything but these objects.
outside_lifetime_vars == <<function_repository_, request_vars,
                           entry_snapshot_published, repository_vars,
                           engine_vars, creation, periodic_function,
                           sandboxee, promise, resolution>>

\* The service as AdAuctionsImpl::Create returns it.
LifetimeInit ==
    /\ lifetime = NoLifetime
    /\ function_repository_ = EmptyRepository
    /\ NoRunAdAuction
    /\ RepositoryThreadsAtRest
    /\ EngineAtRest
    /\ creation = NotCreated
    /\ periodic_function = NoPeriodicFunction
    /\ sandboxee = NoSandboxee
    /\ promise = NoPromise
    /\ resolution = NoResolution

\* RunGenerateBidFunction or RunScoreAdFunction: the ReaderMutexLock is
\* acquired, when the refresh thread does not hold the mutex.  The gRPC
\* server that delivers requests is destroyed before the service, so none
\* arrives once the destructor runs.
LockReader(t) ==
    /\ t \notin lifetime.readers
    /\ lifetime.refresher # "locked"
    /\ ~lifetime.notified
    /\ lifetime' = [lifetime EXCEPT !.readers = @ \cup {t}]
    /\ UNCHANGED outside_lifetime_vars

\* GetBiddingFunction or GetAdScoringFunction on the repository that
\* function_repository_ points to, and the call of BatchInvoke on the
\* function found; -1 when the lookup returned NotFound or Unavailable and
\* nothing is invoked.
LookUpAndInvoke(t) ==
    /\ t \in lifetime.readers
    /\ lifetime.function[t] = 0
    /\ \E found \in BOOLEAN :
          lifetime' = [lifetime EXCEPT
                          !.function[t] =
                              IF found THEN lifetime.function_repository_
                              ELSE -1]
    /\ UNCHANGED outside_lifetime_vars

\* The function returns, after BatchInvoke or because the lookup failed: the
\* lock is released.
RunFunctionReturns(t) ==
    /\ t \in lifetime.readers
    /\ lifetime' = [lifetime EXCEPT !.readers = @ \ {t},
                                    !.function[t] = 0]
    /\ UNCHANGED outside_lifetime_vars

\* RefreshFunctionRepository, run by the thread of repository_refresh_ when
\* its wait timed out: CreateFunctionRepository returned a new repository,
\* held by the local repository_or_status.  No lock is held.
CreateCandidateRepository ==
    /\ lifetime.refresher = "waiting"
    /\ lifetime.repository_refresh_ = "running"
    /\ ~lifetime.notified
    /\ lifetime.function_repository_ <= MaxInvocations
    /\ lifetime' = [lifetime EXCEPT
                       !.refresher = "created",
                       !.candidate = lifetime.function_repository_ + 1,
                       !.alive = @ \cup {lifetime.function_repository_ + 1}]
    /\ UNCHANGED outside_lifetime_vars

\* Mutant: the writer lock does not wait for the readers.
LockWriter_NoWait ==
    /\ lifetime.refresher = "created"
    /\ lifetime' = [lifetime EXCEPT !.refresher = "locked"]
    /\ UNCHANGED outside_lifetime_vars

\* RefreshFunctionRepository: the WriterMutexLock is acquired, when no reader
\* holds the mutex.
LockWriter ==
    /\ lifetime.refresher = "created"
    /\ lifetime.readers = {}
    /\ lifetime' = [lifetime EXCEPT !.refresher = "locked"]
    /\ UNCHANGED outside_lifetime_vars

\* RefreshFunctionRepository: the move assignment to function_repository_,
\* which destroys the repository it pointed to; the lock is released and
\* the thread goes back to its wait.
AssignFunctionRepository ==
    /\ lifetime.refresher = "locked"
    /\ lifetime' = [lifetime EXCEPT
                       !.function_repository_ = lifetime.candidate,
                       !.alive = @ \ {lifetime.function_repository_},
                       !.candidate = 0,
                       !.refresher = "waiting"]
    /\ UNCHANGED outside_lifetime_vars

\* ~AdAuctionsImpl destroys the members in the reverse order of their
\* declaration, repository_refresh_ first: ~PeriodicFunction calls
\* exit_notification_.Notify().  No request is being served.
NotifyExit ==
    /\ ~lifetime.notified
    /\ lifetime.readers = {}
    /\ lifetime' = [lifetime EXCEPT !.notified = TRUE]
    /\ UNCHANGED outside_lifetime_vars

\* ~PeriodicFunction: reload_thread_->join() returns once the thread has
\* left its loop, which it does from its wait.
JoinReloadThread ==
    /\ lifetime.notified
    /\ lifetime.repository_refresh_ = "running"
    /\ lifetime.refresher = "waiting"
    /\ lifetime' = [lifetime EXCEPT !.repository_refresh_ = "destroyed"]
    /\ UNCHANGED outside_lifetime_vars

\* ~AdAuctionsImpl, the next member: function_repository_ is destroyed, and
\* the repository it points to with it.
DestroyFunctionRepository ==
    /\ lifetime.repository_refresh_ = "destroyed"
    /\ ~lifetime.repository_destroyed
    /\ lifetime' = [lifetime EXCEPT
                       !.repository_destroyed = TRUE,
                       !.alive = @ \ {lifetime.function_repository_},
                       !.function_repository_ = 0]
    /\ UNCHANGED outside_lifetime_vars

LifetimeNext ==
    \/ \E t \in Callers : LockReader(t)
    \/ \E t \in Callers : LookUpAndInvoke(t)
    \/ \E t \in Callers : RunFunctionReturns(t)
    \/ CreateCandidateRepository
    \/ LockWriter
    \/ AssignFunctionRepository
    \/ NotifyExit
    \/ JoinReloadThread
    \/ DestroyFunctionRepository

LifetimeSpec == LifetimeInit /\ [][LifetimeNext]_vars

(***************************************************************************)
(* Vocabulary of the properties of the refresh thread and of ComputeBid.   *)
(***************************************************************************)
\* The URIs a list of specifications names.
UrisOf(specifications) ==
    { specifications[i] : i \in 1..Len(specifications) }

\* What a rebuild is expected to store for source codes it read: the script,
\* or the unavailable marker for one that does not compile.
ExpectedFunctions(codes) ==
    [uri \in DOMAIN codes |->
        IF codes[uri] = "bad" THEN "nullptr" ELSE codes[uri]]

ExpectedRepository(codes) ==
    [bidding_functions_ |-> ExpectedFunctions(codes.bidding),
     ad_scoring_functions_ |-> ExpectedFunctions(codes.ad_scoring)]

\* What a ComputeBid call is expected to return when the published rebuild
\* read this source code for the function it names ("none": not configured).
ExpectedComputeBid(source, input) ==
    CASE source = "none" ->
            [error_code |-> "NOT_FOUND",
             response |-> DefaultBiddingFunctionOutput]
      [] source = "bad" ->
            [error_code |-> "UNAVAILABLE",
             response |-> DefaultBiddingFunctionOutput]
      [] source = "perBuyer" ->
            [error_code |-> "OK",
             response |-> [bid |-> input.per_buyer_signals,
                           render_url |-> input.interest_group.render_url,
                           ad |-> input.interest_group.ad_metadata]]
      [] OTHER ->
            [error_code |-> "INTERNAL",
             response |-> DefaultBiddingFunctionOutput]

\* What the last ComputeBid call returned, in the shape above.
ComputeBidOutcome ==
    [error_code |-> compute_bid.error_code, response |-> compute_bid.response]

\* A step in which RefreshFunctionRepository returns after a failed
\* CreateFunctionRepository.
RefreshFailedStep ==
    /\ refresher.pc # "created"
    /\ refresher'.pc = "waiting"
    /\ \/ refresher' # refresher
       \/ function_repository_' # function_repository_

(***************************************************************************)
(* C11.  The published repository is at every moment wholly the product of *)
(* one completed rebuild (the construction or one refresh): it holds, for  *)
(* both roles, exactly what that rebuild made of the source codes it read, *)
(* never the repository a refresh is still building and never entries of   *)
(* two rebuilds.  Every lookup of a request reads that repository.         *)
(***************************************************************************)
C11_PublishedIsOneWholeRebuild ==
    function_repository_ = ExpectedRepository(published_codes)

\* A request was served after a swap while the refresh thread holds a new
\* repository, different from the published one, that it has not swapped in.
C11_Witness ==
    /\ refresher.last_status = "OK"
    /\ refresher.pc = "created"
    /\ refresher.new_function_repository.bidding_functions_ #
           function_repository_.bidding_functions_
    /\ refresher.new_function_repository.ad_scoring_functions_ #
           function_repository_.ad_scoring_functions_
    /\ compute_bid.called
    /\ compute_bid.error_code = "OK"

C13_FailedRefreshKeepsRepository ==
    [][RefreshFailedStep =>
          /\ function_repository_' = function_repository_
          /\ \A name \in RequestFunctionNames, input \in ComputeBidInputs :
                RunGenerateBidFunction(function_repository_', name, input) =
                    RunGenerateBidFunction(function_repository_, name, input)
      ]_vars

\* A call made after a failed refresh was answered with a bid.
C13_Witness ==
    /\ refresher.last_status = "NOT_FOUND"
    /\ compute_bid.called
    /\ compute_bid.situation = "refresh_failed"
    /\ compute_bid.error_code = "OK"

(***************************************************************************)
(* C14.  A failure to obtain the source of one script does not abort the   *)
(* rebuild: every refresh ends with a swap, so no refresh ever returns the *)
(* failure of a fetch instead of publishing.                               *)
(***************************************************************************)
C14_FetchFailureDoesNotAbort ==
    refresher.last_status \in {"NONE", "OK"}

(***************************************************************************)
(* C15.  In every published repository the keys of the bidding functions   *)
(* are exactly the URIs configured as bidding functions and the keys of    *)
(* the ad scoring functions exactly those configured as ad scoring         *)
(* functions; a configured script that did not compile is there as         *)
(* unavailable, its lookup and a ComputeBid call that names it return      *)
(* UNAVAILABLE, never NOT_FOUND.                                           *)
(***************************************************************************)
C15_KeysAreTheConfiguredUris ==
    /\ DOMAIN function_repository_.bidding_functions_ =
           UrisOf(configuration.bidding_function_specs)
    /\ DOMAIN function_repository_.ad_scoring_functions_ =
           UrisOf(configuration.ad_scoring_function_specs)
    /\ \A uri \in DOMAIN published_codes.bidding :
          published_codes.bidding[uri] = "bad" =>
              GetBiddingFunction(function_repository_, uri).code =
                  "UNAVAILABLE"
    /\ \A uri \in DOMAIN published_codes.ad_scoring :
          published_codes.ad_scoring[uri] = "bad" =>
              GetAdScoringFunction(function_repository_, uri).code =
                  "UNAVAILABLE"
    /\ (compute_bid.called /\ compute_bid.source = "bad") =>
           compute_bid.error_code = "UNAVAILABLE"

\* The server was constructed with a script that does not compile, no
\* refresh has run, and a call naming the script returned UNAVAILABLE.
C15_Witness ==
    /\ refresher.last_status = "NONE"
    /\ refresher.pc = "waiting"
    /\ compute_bid.called
    /\ compute_bid.source = "bad"
    /\ compute_bid.error_code = "UNAVAILABLE"
    /\ function_repository_.bidding_functions_[
           compute_bid.bidding_function_name] = "nullptr"

(***************************************************************************)
(* C16.  In every published repository no URI is a key of both the bidding *)
(* functions and the ad scoring functions.                                 *)
(***************************************************************************)
C16_NoUriInBothMaps ==
    DOMAIN function_repository_.bidding_functions_ \cap
        DOMAIN function_repository_.ad_scoring_functions_ = {}

(***************************************************************************)
(* C17.  The lookups are total and three-valued: for every URI and either  *)
(* role the lookup returns not-found exactly when the URI is no key,       *)
(* unavailable exactly when the key holds the unavailable marker, and      *)
(* otherwise the compiled script stored under the URI; and a request's     *)
(* lookup never changes the repository.                                    *)
(***************************************************************************)
C17_LookupsTotalThreeValued ==
    /\ [](\A uri \in RequestFunctionNames :
            LET bidding == GetBiddingFunction(function_repository_, uri)
                scoring == GetAdScoringFunction(function_repository_, uri)
                bidders == function_repository_.bidding_functions_
                scorers == function_repository_.ad_scoring_functions_
            IN  /\ \/ /\ uri \notin DOMAIN bidders
                      /\ ~bidding.ok /\ bidding.code = "NOT_FOUND"
                   \/ /\ uri \in DOMAIN bidders /\ bidders[uri] = "nullptr"
                      /\ ~bidding.ok /\ bidding.code = "UNAVAILABLE"
                   \/ /\ uri \in DOMAIN bidders /\ bidders[uri] # "nullptr"
                      /\ bidding.ok /\ bidding.value = bidders[uri]
                /\ \/ /\ uri \notin DOMAIN scorers
                      /\ ~scoring.ok /\ scoring.code = "NOT_FOUND"
                   \/ /\ uri \in DOMAIN scorers /\ scorers[uri] = "nullptr"
                      /\ ~scoring.ok /\ scoring.code = "UNAVAILABLE"
                   \/ /\ uri \in DOMAIN scorers /\ scorers[uri] # "nullptr"
                      /\ scoring.ok /\ scoring.value = scorers[uri])
    /\ [][compute_bid' # compute_bid =>
              function_repository_' = function_repository_]_vars

\* One repository in which the three answers occur: a compiled bidding
\* function, an unavailable ad scoring function, and a URI that is no key;
\* a request has looked a function up in it.
C17_Witness ==
    /\ compute_bid.called
    /\ \E uri \in FunctionUris :
          GetBiddingFunction(function_repository_, uri).ok
    /\ \E uri \in FunctionUris :
          GetAdScoringFunction(function_repository_, uri).code =
              "UNAVAILABLE"
    /\ \E uri \in RequestFunctionNames :
          /\ GetBiddingFunction(function_repository_, uri).code =
                 "NOT_FOUND"
          /\ GetAdScoringFunction(function_repository_, uri).code =
                 "NOT_FOUND"

(***************************************************************************)
(* C18.  ComputeBid returns NOT_FOUND when the named bidding function is   *)
(* not configured, UNAVAILABLE when it is configured and unavailable, and  *)
(* otherwise what invoking the function on the request's input gives: the  *)
(* output with OK, or the error.  The status returned carries the code of  *)
(* the same name as the internal error and its message, and on an error    *)
(* the response message is left as it was passed in.                       *)
(***************************************************************************)
C18_ComputeBidStatus ==
    compute_bid.called =>
        LET name == compute_bid.bidding_function_name
            invoked == InvokeBiddingFunction(compute_bid.source,
                                             compute_bid.input)
        IN  IF name \notin UrisOf(configuration.bidding_function_specs)
            THEN /\ compute_bid.error_code = "NOT_FOUND"
                 /\ compute_bid.error_message =
                        <<"Bidding function ", name, " not found">>
                 /\ compute_bid.response = DefaultBiddingFunctionOutput
            ELSE IF compute_bid.source = "bad"
            THEN /\ compute_bid.error_code = "UNAVAILABLE"
                 /\ compute_bid.error_message =
                        <<"Bidding function ", name, " is not available">>
                 /\ compute_bid.response = DefaultBiddingFunctionOutput
            ELSE IF invoked.ok
            THEN /\ compute_bid.error_code = "OK"
                 /\ compute_bid.response = invoked.value
            ELSE /\ compute_bid.error_code = invoked.code
                 /\ compute_bid.error_message =
                        BiddingStatusMessage(invoked, name)
                 /\ compute_bid.response = DefaultBiddingFunctionOutput

\* A call whose bidding function failed when invoked returned that error.
C18_Witness ==
    /\ compute_bid.called
    /\ compute_bid.source = "throw"
    /\ compute_bid.error_code = "INTERNAL"

(***************************************************************************)
(* Vocabulary of the properties of one compiled function.                  *)
(***************************************************************************)
\* What a BatchInvoke call returns when no other call runs beside it.
RECURSIVE RunLoopAlone(_, _)
RunLoopAlone(function, isolate_) ==
    IF LoopEnded(isolate_) THEN BatchInvokeResult(isolate_)
    ELSE RunLoopAlone(function, IsolateAfterInput(function, isolate_))

BatchInvokeAlone(function, inputs) ==
    RunLoopAlone(function, EnterIsolate(function, "alone", inputs))

(***************************************************************************)
(* C19.  Concurrent BatchInvoke calls on one function, in process or       *)
(* through the sandbox, each return what the function computes from the    *)
(* call's own inputs (its outputs or its error), as if the calls had run   *)
(* one after the other.  Every call gets a context of its own, so whatever *)
(* the order, that is what the call returns when it runs alone.            *)
(***************************************************************************)
C19_CallsReturnTheirOwnOutputs ==
    \A t \in Callers :
        callers[t].pc = "done" =>
            callers[t].result =
                BatchInvokeAlone(bidding_function, callers[t].inputs)

(***************************************************************************)
(* C20.  Every invocation of the function starts from the script-global    *)
(* state of the snapshot taken at the end of the warm-up: whenever the     *)
(* loop of a BatchInvoke call is about to process an input, first or not,  *)
(* the globals of its context are those of the snapshot.                   *)
(***************************************************************************)
C20_EveryInputStartsFromSnapshot ==
    (isolate.owner # "none" /\ ~LoopEnded(isolate)) =>
        isolate.context_global = bidding_function.startup_data

(***************************************************************************)
(* C21.  BatchInvoke processes its inputs one after the other in the given *)
(* order: while the loop runs, the outputs so far are those of the inputs  *)
(* before the next one, output i from input i, and no input after the      *)
(* first failing one is ever invoked; a call returns one output per input, *)
(* or, when the invocation of an input failed, the status of the first     *)
(* failing input and no outputs at all.  (Calls through the sandbox are    *)
(* taken when no other thread called beside them and the sandboxee was not *)
(* ended by the wall time limit.)                                          *)
(***************************************************************************)
\* The invocation of input i of a call: a script that counts in its globals
\* has been invoked i - 1 times in the context of the call.
InvocationOfInput(function, inputs, i) ==
    InvokeFunctionOnce(function.source,
                       IF function.source = "counter"
                       THEN function.startup_data + (i - 1)
                       ELSE function.startup_data,
                       inputs[i])

\* The position of the first input whose invocation fails, or one past the
\* last input.
FirstFailingInput(function, inputs) ==
    LET failing == { i \in 1..Len(inputs) :
                        ~InvocationOfInput(function, inputs, i).ok }
    IN  IF failing = {} THEN Len(inputs) + 1
        ELSE CHOOSE i \in failing : \A j \in failing : i <= j

\* No other thread called the function beside thread t.
CalledAlone(t) ==
    use_sandbox2 => \A u \in Callers \ {t} : callers[u].pc = "idle"

C21_BatchInvokeInOrderAllOrNothing ==
    /\ isolate.owner # "none" =>
          LET failing == FirstFailingInput(bidding_function, isolate.inputs)
          IN  /\ isolate.next_input <= failing
              /\ Len(isolate.outputs) = isolate.next_input - 1
              /\ \A i \in 1..Len(isolate.outputs) :
                    isolate.outputs[i] =
                        InvocationOfInput(bidding_function,
                                          isolate.inputs, i).output
              /\ isolate.status # "OK" =>
                    /\ isolate.next_input = failing
                    /\ isolate.status =
                           InvocationOfInput(bidding_function,
                                             isolate.inputs, failing).code
    /\ \A t \in Callers :
          (callers[t].pc = "done" /\ CalledAlone(t) /\ ~comms.terminated) =>
              LET inputs == callers[t].inputs
                  failing == FirstFailingInput(bidding_function, inputs)
              IN  IF failing > Len(inputs)
                  THEN /\ callers[t].result.ok
                       /\ Len(callers[t].result.value) = Len(inputs)
                       /\ \A i \in 1..Len(inputs) :
                             callers[t].result.value[i] =
                                 InvocationOfInput(bidding_function,
                                                   inputs, i).output
                  ELSE callers[t].result =
                           ErrorResult(
                               InvocationOfInput(bidding_function, inputs,
                                                 failing).code, <<>>)

\* A call whose first input gave an output and whose second input failed has
\* returned the failure and no output.
C21_Witness ==
    \E t \in Callers :
        /\ ~use_sandbox2
        /\ callers[t].pc = "done"
        /\ bidding_function.source = "throwOn2"
        /\ Len(callers[t].inputs) = 2
        /\ callers[t].inputs[1].per_buyer_signals = 1
        /\ callers[t].inputs[2].per_buyer_signals = 2
        /\ callers[t].result = ErrorResult("INTERNAL", <<>>)

(***************************************************************************)
(* C22.  The wall time limit of the sandbox is armed exactly while a       *)
(* BatchInvoke call is executing in the sandbox: armed at every moment     *)
(* some thread is between the SetWallTimeLimit that opens its call and the *)
(* end of its BatchExecute, and disarmed at every moment no thread is,     *)
(* whether the last call returned outputs or an error.                     *)
(***************************************************************************)
\* Thread t is inside Sandbox::BatchExecute.
ExecutingInSandbox(t) ==
    callers[t].pc \in {"tag_sent", "inputs_sent", "status_received"}

C22_WallTimeLimitArmedDuringCalls ==
    comms.wall_time_limit = (\E t \in Callers : ExecutingInSandbox(t))

(***************************************************************************)
(* C23.  Every BatchInvoke call that has started eventually returns, in    *)
(* process and through the sandbox, whatever the script does on its        *)
(* inputs: a script that does not terminate is ended and the call returns  *)
(* an error.                                                               *)
(***************************************************************************)
C23_EveryCallReturns ==
    \A t \in Callers :
        (callers[t].pc # "idle") ~> (callers[t].pc = "done")

(***************************************************************************)
(* Vocabulary of the properties of the creation of the service.            *)
(***************************************************************************)
\* The URIs of both lists of the configuration.
ConfiguredUris ==
    UrisOf(configuration.bidding_function_specs)
        \cup UrisOf(configuration.ad_scoring_function_specs)

\* A list of specifications names a URI more than once.
HasDuplicate(specifications) ==
    \E i, j \in 1..Len(specifications) :
        i < j /\ specifications[i] = specifications[j]

FetchFails == \E uri \in ConfiguredUris : function_source[uri] = "fetch_error"
CompileFails == \E uri \in ConfiguredUris : function_source[uri] = "bad"

\* Create returned an error and constructed nothing.
CreationFailed ==
    /\ creation.code # "OK"
    /\ ~creation.service
    /\ function_repository_ = EmptyRepository

(***************************************************************************)
(* C24 as stated.  When the fetch or the compilation of any configured     *)
(* function fails during creation, Create returns an error and no service  *)
(* is constructed.                                                         *)
(***************************************************************************)
C24_FetchOrCompileErrorFailsStartup ==
    (creation.pc = "returned" /\ (FetchFails \/ CompileFails)) =>
        CreationFailed

(***************************************************************************)
(* C24 amended.  When the fetch of any configured function fails during    *)
(* creation, Create returns an error and no service is constructed.  A     *)
(* function that does not compile does not fail the creation: when every   *)
(* fetch succeeds and no list repeats a URI, Create returns ok and the     *)
(* service is constructed with a repository that holds every configured    *)
(* URI, the one that did not compile as an unavailable function.           *)
(***************************************************************************)
C24_FetchErrorFailsStartupCompileErrorDoesNot ==
    creation.pc = "returned" =>
        /\ FetchFails => CreationFailed
        /\ creation.code # "OK" => CreationFailed
        /\ (/\ ~FetchFails
            /\ ~HasDuplicate(configuration.bidding_function_specs)
            /\ ~HasDuplicate(configuration.ad_scoring_function_specs)) =>
               /\ creation.code = "OK"
               /\ creation.service
               /\ function_repository_ =
                      ExpectedRepository(
                          [bidding |->
                               [uri \in UrisOf(
                                    configuration.bidding_function_specs)
                                   |-> function_source[uri]],
                           ad_scoring |->
                               [uri \in UrisOf(
                                    configuration.ad_scoring_function_specs)
                                   |-> function_source[uri]]])
               /\ \A uri \in UrisOf(configuration.bidding_function_specs) :
                     function_source[uri] = "bad" =>
                         GetBiddingFunction(function_repository_, uri).code
                             = "UNAVAILABLE"

\* Create returned ok for a configuration with a script that does not
\* compile.
C24_Witness ==
    /\ creation.pc = "returned"
    /\ creation.service
    /\ \E uri \in UrisOf(configuration.bidding_function_specs) :
          function_source[uri] = "bad"

\* The configuration names a URI more than once within one of its lists.
ListRepeatsUri ==
    \/ HasDuplicate(configuration.bidding_function_specs)
    \/ HasDuplicate(configuration.ad_scoring_function_specs)

\* Create returned invalid-argument with the "defined more than once"
\* message, for a URI that the configuration does repeat in a list.
DefinedMoreThanOnce ==
    /\ creation.code = "INVALID_ARGUMENT"
    /\ Len(creation.message) = 3
    /\ creation.message[1] = "Function '"
    /\ creation.message[3]
           = "' defined more than once in the configuration file."
    /\ \/ HasDuplicate(configuration.bidding_function_specs)
          /\ creation.message[2]
                 = DuplicateUri(configuration.bidding_function_specs)
       \/ HasDuplicate(configuration.ad_scoring_function_specs)
          /\ creation.message[2]
                 = DuplicateUri(configuration.ad_scoring_function_specs)

CallbackStarts ==
    periodic_function'.invocations = periodic_function.invocations + 1

C26_InvocationsWaitAndNeverOverlap ==
    /\ [](/\ periodic_function.invocations - periodic_function.returns
                \in {0, 1}
          /\ (periodic_function.invocations - periodic_function.returns = 1)
                <=> (periodic_function.reload_thread_ = "in_function"))
    /\ [][CallbackStarts =>
            \/ /\ periodic_function.invocations = 0
               /\ periodic_function.reload_thread_ = "first_wait"
               /\ periodic_function.waited
                      = periodic_function.first_invocation_delay_
            \/ /\ periodic_function.invocations > 0
               /\ periodic_function.returns = periodic_function.invocations
               /\ periodic_function.reload_thread_ = "interval_wait"
               /\ periodic_function.waited
                      = periodic_function.invocation_interval_]_vars

\* A second invocation has started, after a delay and an interval that are
\* not zero.
C26_Witness ==
    /\ periodic_function.invocations = 2
    /\ periodic_function.reload_thread_ = "in_function"
    /\ periodic_function.first_invocation_delay_ > 0
    /\ periodic_function.invocation_interval_ > 0

(***************************************************************************)
(* C27.  A PeriodicFunction whose destructor was called while the reload   *)
(* thread was still in its first wait never invokes the callback; and      *)
(* whenever the destructor has returned, the reload thread has ended and   *)
(* no invocation of the callback starts any more.                          *)
(***************************************************************************)
C27_NoInvocationAfterDestruction ==
    /\ [](periodic_function.notified_in = "first_wait" =>
             periodic_function.invocations = 0)
    /\ [](periodic_function.destructor = "returned" =>
             periodic_function.reload_thread_ = "exited")
    /\ [][periodic_function.destructor = "returned" =>
             ~CallbackStarts]_vars

\* The destructor has returned for a PeriodicFunction destroyed during a
\* first-invocation delay that is not zero.
C27_Witness ==
    /\ periodic_function.destructor = "returned"
    /\ periodic_function.notified_in = "first_wait"
    /\ periodic_function.first_invocation_delay_ > 0
    /\ periodic_function.invocations = 0

(***************************************************************************)
(* C28.  The destructor of a PeriodicFunction always returns, and no time  *)
(* passes in it while the reload thread sleeps: a thread that is in its    *)
(* first wait or in an interval wait when the notification arrives leaves  *)
(* the wait at once, whatever is left of the timeout, so the destructor    *)
(* waits only for a callback that is in progress.                          *)
(***************************************************************************)
C28_DestructorDoesNotWaitForSleep ==
    /\ [](periodic_function.destruction_wait = 0)
    /\ []((/\ periodic_function.destructor = "joining"
           /\ periodic_function.reload_thread_
                  \in {"first_wait", "interval_wait"}) =>
              ReloadThreadWait = "notified")
    /\ (periodic_function.destructor = "joining")
           ~> (periodic_function.destructor = "returned")

\* The destructor has returned for a PeriodicFunction destroyed during an
\* interval wait with time left.
C28_Witness ==
    /\ periodic_function.destructor = "returned"
    /\ periodic_function.notified_in = "interval_wait"
    /\ periodic_function.waited < periodic_function.invocation_interval_
    /\ periodic_function.destruction_wait = 0

(***************************************************************************)
(* Vocabulary of the properties of the sandboxee.                          *)
(***************************************************************************)
\* This step serves a Compile request, or a BatchExecute request.
CompileServed ==
    /\ sandboxee'.served = sandboxee.served + 1
    /\ sandboxee'.last_op = "kCompile"
BatchExecuteServed ==
    /\ sandboxee'.served = sandboxee.served + 1
    /\ sandboxee'.last_op = "kBatchExecute"

\* The function and the role the sandboxee holds are those of its state.
InstalledUnchanged ==
    /\ sandboxee'.function_type = sandboxee.function_type
    /\ sandboxee'.single_bidding_function = sandboxee.single_bidding_function

(***************************************************************************)
(* C29.  A sandboxee holds one compiled function for its lifetime: at most *)
(* one Compile request is answered ok, and once one has been, every later  *)
(* Compile request is answered failed-precondition and leaves the          *)
(* installed function and its role as they are.                            *)
(***************************************************************************)
C29_LaterCompileIsFailedPrecondition ==
    /\ [](Len(sandboxee.compiled) <= 1)
    /\ [][(CompileServed /\ sandboxee.compiled # <<>>) =>
             /\ sandboxee'.last_status = "FAILED_PRECONDITION"
             /\ InstalledUnchanged]_vars

(***************************************************************************)
(* C30.  The sandboxee runs a function for BatchExecute only when a        *)
(* Compile has succeeded: a BatchExecute request served before that is     *)
(* answered failed-precondition, invokes nothing and returns no outputs;   *)
(* every invocation the sandboxee ever makes is of the function that the   *)
(* successful Compile installed, in the role of that Compile, on an input  *)
(* of that role, and the outputs it returns are outputs of that role.      *)
(***************************************************************************)
\* The output message of a role.
IsOutputOfRole(output, role) ==
    IF role = "FLEDGE_BIDDING_FUNCTION"
    THEN DOMAIN output = {"bid", "render_url", "ad"}
    ELSE DOMAIN output = {"desirability_score"}

C30_BatchExecuteOnlyWhenCompiled ==
    /\ []((sandboxee.function_type = "FUNCTION_TYPE_UNSPECIFIED")
              <=> (sandboxee.compiled = <<>>))
    /\ [](\A k \in 1..Len(sandboxee.invoked) :
             /\ sandboxee.compiled # <<>>
             /\ sandboxee.invoked[k].role = sandboxee.compiled[1].type
             /\ sandboxee.invoked[k].function
                    = sandboxee.compiled[1].bidding_function_source
             /\ \E any \in AnyInputs :
                   /\ any.message_type = sandboxee.invoked[k].role
                   /\ any.value = sandboxee.invoked[k].input)
    /\ [](\A k \in 1..Len(sandboxee.last_outputs) :
             /\ sandboxee.compiled # <<>>
             /\ IsOutputOfRole(sandboxee.last_outputs[k],
                               sandboxee.compiled[1].type))
    /\ [][(BatchExecuteServed /\ sandboxee.compiled = <<>>) =>
             /\ sandboxee'.last_status = "FAILED_PRECONDITION"
             /\ sandboxee'.invoked = sandboxee.invoked
             /\ sandboxee'.last_outputs = <<>>]_vars

\* A BatchExecute request served after a Compile that failed has been
\* answered failed-precondition.
C30_Witness ==
    /\ sandboxee.served = 2
    /\ sandboxee.compiled = <<>>
    /\ sandboxee.last_op = "kBatchExecute"
    /\ sandboxee.last_status = "FAILED_PRECONDITION"
    /\ sandboxee.invoked = <<>>

(***************************************************************************)
(* C31.  On the channel of the sandbox the host reads exactly what the     *)
(* sandboxee writes for its request, one status and after an ok status one *)
(* payload: whenever no BatchInvoke call is in progress and the sandboxee  *)
(* is alive and not serving, no message is left unread in either           *)
(* direction, so the next call reads the replies to its own request.       *)
(***************************************************************************)
\* No thread is inside SapiBiddingFunction::BatchInvoke and the sandboxee is
\* back in RecvTLV.
ChannelAtRest ==
    /\ use_sandbox2
    /\ ~comms.terminated
    /\ isolate.owner = "none"
    /\ \A t \in Callers : ~ExecutingInSandbox(t)

C31_NoUnreadMessageBetweenCalls ==
    ChannelAtRest => (comms.to_sandboxee = <<>> /\ comms.to_host = <<>>)

(***************************************************************************)
(* C32.  A wait for a promise ends with the fulfilled value when the       *)
(* promise is fulfilled, with invalid argument when it is rejected, with   *)
(* invalid argument and a message saying it timed out when it is still     *)
(* pending, and the wait never lasts longer than the async wait: at no     *)
(* moment of the wait has more time elapsed than wait_duration.            *)
(***************************************************************************)
WaitReturned == promise.pc = "returned"

C32_WaitOutcomeByState ==
    WaitReturned =>
        /\ promise.state = "kFulfilled" =>
              (promise.ok /\ promise.value = "Result")
        /\ promise.state = "kRejected" =>
              (~promise.ok /\ promise.code = "INVALID_ARGUMENT")
        /\ promise.state = "kPending" =>
              /\ ~promise.ok
              /\ promise.code = "INVALID_ARGUMENT"
              /\ promise.message = "Async javascript function timed out."

C32_WaitEndsByTheDeadline ==
    /\ C32_WaitOutcomeByState
    /\ promise.pc # "none" => promise.elapsed <= promise.wait_duration

(***************************************************************************)
(* C33.  Serving a request fetches and compiles nothing: a ComputeBid call  *)
(* leaves the function source, the refresh thread and the repository as    *)
(* they are and is answered from the published repository, also while a    *)
(* rebuild is fetching or compiling.  The refresh thread builds the whole   *)
(* new repository aside: the published repository changes only in the step *)
(* that swaps in a new repository that is complete.                        *)
(***************************************************************************)
\* A step that serves a ComputeBid call.
ComputeBidStep == compute_bid' # compute_bid

C33_RequestsServedWhileRebuilding ==
    [][/\ ComputeBidStep =>
            /\ UNCHANGED <<function_repository_, function_source,
                           refresher, published_codes>>
            /\ LET call == compute_bid'
               IN  [error_code |-> call.error_code,
                    response |-> call.response] =
                       ExpectedComputeBid(
                           IF call.bidding_function_name \in
                                  DOMAIN published_codes.bidding
                           THEN published_codes.bidding[
                                    call.bidding_function_name]
                           ELSE "none",
                           call.input)
       /\ function_repository_' # function_repository_ =>
            /\ refresher.pc = "created"
            /\ function_repository_' = refresher.new_function_repository
            /\ function_repository_' =
                   NewFunctionRepository(
                       refresher.bidding_function_source_codes,
                       refresher.ad_scoring_function_source_codes)
      ]_vars

\* A call was answered with the bid of the published script while the
\* refresh thread holds a finished repository, compiled from other sources,
\* that it has not swapped in.
C33_Witness ==
    /\ refresher.pc = "created"
    /\ compute_bid.called
    /\ compute_bid.error_code = "OK"
    /\ compute_bid.situation = "source_changed"
    /\ refresher.bidding_function_source_codes[
           compute_bid.bidding_function_name] # compute_bid.source
    /\ function_repository_.bidding_functions_[
           compute_bid.bidding_function_name] = compute_bid.source

(***************************************************************************)
(* C34.  A rebuild that read, for every configured function, the same      *)
(* source code as the rebuild published before it changes no response:     *)
(* every request, for every function name and input, is answered after its *)
(* swap as it was answered before.                                         *)
(***************************************************************************)
\* The refresh thread holds a new repository built from the very source
\* codes the published repository was built from.
RebuiltFromSameSources ==
    /\ refresher.pc = "created"
    /\ refresher.bidding_function_source_codes = published_codes.bidding
    /\ refresher.ad_scoring_function_source_codes =
           published_codes.ad_scoring

LocalUris ==
    {<<"local", ":", "/", "/", "Host">>,
     <<"local", ":", "/", "/", "Host", "/", "Host">>}

\* The well-formed http URIs.
RemoteUris ==
    {<<"http", ":", "/", "/", "Host", ":", "80", "/", "Host">>,
     <<"http", ":", "/", "/", "Host", "/", "Host">>,
     <<"http", ":", "/", "/", "Host">>,
     <<"http", ":", "/", "/", "Host", ":", "80">>}

Resolved == resolution.pc = "returned"

ResolvedTo(code) == ~resolution.ok /\ resolution.code = code

C35_GetFunctionCodeStatus ==
    Resolved =>
        /\ resolution.uri \in LocalUris =>
              IF resolution.source_code = "nullopt"
              THEN ResolvedTo("INVALID_ARGUMENT")
              ELSE /\ resolution.ok
                   /\ resolution.value = resolution.source_code
        /\ resolution.uri \notin LocalUris \cup RemoteUris =>
              ResolvedTo("INVALID_ARGUMENT")
        /\ resolution.uri \in RemoteUris =>
              LET res == resolution.res
              IN  CASE res.error -> ResolvedTo("INTERNAL")
                    [] ~res.error /\ res.status = 200 ->
                          resolution.ok /\ resolution.value = res.body
                    [] ~res.error /\ res.status = 400 ->
                          ResolvedTo("INVALID_ARGUMENT")
                    [] ~res.error /\ res.status \in {401, 403} ->
                          ResolvedTo("PERMISSION_DENIED")
                    [] ~res.error /\ res.status = 404 ->
                          ResolvedTo("NOT_FOUND")
                    [] OTHER -> ResolvedTo("INTERNAL")

\* A remote URI was fetched and the server answered 403.
C35_Witness ==
    /\ Resolved
    /\ resolution.uri \in RemoteUris
    /\ ~resolution.res.error
    /\ resolution.res.status = 403
    /\ ResolvedTo("PERMISSION_DENIED")

(***************************************************************************)
(* C36.  RunAdAuction takes the interest groups in the order of the        *)
(* request and is done with one, bidder and then scorer, before it touches *)
(* the next.  The scorer is looked up and invoked for a group exactly when *)
(* the group's bidder returned a bid: not for a group that was filtered    *)
(* out, not for one whose bidder failed.  After the first failure of a     *)
(* scorer the call returns: no bidder and no scorer is invoked any more.   *)
(***************************************************************************)
\* The scorer was looked up for the k-th interest group.
ScorerReached(k) == score_log[k].code # "NOT_INVOKED"

\* The bidder was looked up for the k-th interest group.
BidderReached(k) == bid_log[k].code # "NOT_INVOKED"

C36_InOrderScorerOnlyAfterBid ==
    /\ [](LET bids == Len(bid_log)
              scores == Len(score_log)
              groups == request.interest_groups
          IN  /\ bids <= Len(groups)
              /\ IF pc = "score" THEN bids = scores + 1 ELSE bids = scores
              /\ pc \in {"loop", "score"} =>
                    next_group = scores + 1
              /\ \A k \in 1..bids :
                    /\ BidderReached(k) <=>
                          IsAllowedBuyer(
                              request.auction_configuration
                                  .interest_group_buyers, groups[k])
                    /\ bid_log[k].ok =>
                          bid_log[k].value.render_url = groups[k].render_url
              /\ \A k \in 1..scores :
                    /\ ScorerReached(k) <=> bid_log[k].ok
                    /\ (ScorerReached(k) /\ ~score_log[k].ok) =>
                          /\ k = scores
                          /\ k = bids
                          /\ pc = "done"
                          /\ status = score_log[k].code)
    /\ [][pc' # "idle" =>
             /\ \/ bid_log' = bid_log
                \/ /\ Len(bid_log) = Len(score_log)
                   /\ Len(bid_log') = Len(bid_log) + 1
                   /\ SubSeq(bid_log', 1, Len(bid_log)) = bid_log
             /\ \/ score_log' = score_log
                \/ /\ Len(score_log') = Len(score_log) + 1
                   /\ SubSeq(score_log', 1, Len(score_log)) = score_log
                   /\ Len(bid_log') = Len(score_log')
      ]_vars

\* The scorer failed for the first of two interest groups and the call
\* returned: the second group was never touched.
C36_Witness ==
    /\ pc = "done"
    /\ Len(request.interest_groups) = 2
    /\ Len(bid_log) = 1
    /\ bid_log[1].ok
    /\ ScorerReached(1)
    /\ ~score_log[1].ok
    /\ status # "OK"

(***************************************************************************)
(* C40.  The scorer input built for a candidate has ad_metadata and bid    *)
(* equal to the ad and the bid of the candidate's bidder output,           *)
(* auction_config equal to the auction configuration of the request,       *)
(* trusted_scoring_signals equal to the entry of the request under the     *)
(* render_url of the bidder output (absent when there is none), and the    *)
(* browser signals of the candidate.                                       *)
(***************************************************************************)
\* The input RunAdAuction hands to RunScoreAdFunction for the candidate whose
\* bid it holds.
ScorerInput ==
    CreateAdScoringInputs(bidding_result.value,
                          request.auction_configuration,
                          request.trusted_scoring_signals)

C40_ScorerInputFields ==
    pc = "score" =>
        LET output == bidding_result.value
            candidate == request.interest_groups[next_group]
            signals == request.trusted_scoring_signals
        IN  /\ ScorerInput.ad_metadata = output.ad
            /\ ScorerInput.bid = output.bid
            /\ ScorerInput.auction_config = request.auction_configuration
            /\ IF output.render_url \in DOMAIN signals
               THEN /\ ScorerInput.trusted_scoring_signals.has
                    /\ ScorerInput.trusted_scoring_signals.value =
                           signals[output.render_url]
               ELSE ~ScorerInput.trusted_scoring_signals.has
            /\ ScorerInput.browser_signals.has
            /\ ScorerInput.browser_signals.value = candidate.browser_signals

(***************************************************************************)
(* C37.  A compiled function is never destroyed while it is being invoked: *)
(* the repository a request looked its function up in is alive until the   *)
(* request has finished the invocation, the refresh thread's assignment    *)
(* takes effect only when no request is between lookup and end of the      *)
(* invocation, and the refresh thread has stopped, holding no repository,  *)
(* before the repository of the service is destroyed.                      *)
(***************************************************************************)
C37_NoFunctionDestroyedInUse ==
    /\ [](/\ \A t \in lifetime.readers :
                /\ lifetime.function_repository_ \in lifetime.alive
                /\ lifetime.function[t] > 0 =>
                      lifetime.function[t] \in lifetime.alive
          /\ lifetime.repository_destroyed =>
                /\ lifetime.repository_refresh_ = "destroyed"
                /\ lifetime.refresher = "waiting"
                /\ lifetime.alive = {})
    /\ [][lifetime'.function_repository_ # lifetime.function_repository_ =>
             lifetime.readers = {}]_vars

\* After one swap has destroyed a repository, the refresh thread holds the
\* next one and a request is invoking a function of the published one.
C37_Witness ==
    /\ lifetime.function_repository_ = 2
    /\ lifetime.refresher = "created"
    /\ lifetime.candidate = 3
    /\ \E t \in lifetime.readers : lifetime.function[t] = 2

(***************************************************************************)
(* C38.  A successful invocation on one input returns exactly one output,  *)
(* the output of the function for that input, in process and when the      *)
(* outputs are those the sandboxee sent back: when every call is made with *)
(* a single input, as ComputeBid and RunAdAuction make them, the last      *)
(* element of what a successful call returned is the output for its input. *)
(***************************************************************************)
\* Every call made so far has one input.
SingleInputCalls == \A u \in Callers : Len(callers[u].inputs) <= 1

C38_OneOutputForTheOneInput ==
    SingleInputCalls =>
        \A t \in Callers :
            (callers[t].pc = "done" /\ callers[t].result.ok) =>
                LET outputs == callers[t].result.value
                IN  /\ Len(outputs) = 1
                    /\ outputs[Len(outputs)] =
                           InvocationOfInput(bidding_function,
                                             callers[t].inputs, 1).output

(***************************************************************************)
(* C39.  A failed call leaves the function usable: when the calls made on  *)
(* a function so far have all returned an error, a BatchInvoke call made   *)
(* next with inputs on which the script returns succeeds, with the outputs *)
(* it returns when no other call was ever made.                            *)
(***************************************************************************)
\* The script returns an output for every input.
ValidInputs(inputs) ==
    /\ inputs # <<>>
    /\ \A i \in 1..Len(inputs) :
          /\ Terminates(bidding_function.source, inputs[i])
          /\ InvocationOfInput(bidding_function, inputs, i).ok

\* Thread t has not called yet and the call of every other thread failed.
CallsAfterFailure(t) ==
    /\ callers[t].pc = "idle"
    /\ \A u \in Callers \ {t} :
          callers[u].pc = "done" /\ ~callers[u].result.ok

C39_FailedCallLeavesFunctionUsable ==
    \A t \in Callers :
        [](CallsAfterFailure(t) =>
              []((callers[t].pc = "done" /\ ValidInputs(callers[t].inputs))
                    => /\ callers[t].result.ok
                       /\ callers[t].result =
                              BatchInvokeAlone(bidding_function,
                                               callers[t].inputs)))

====
